---- MODULE Spec2Model ----
(***************************************************************************)
(* Model of the search-migration test harness (miaoxiangsearch_autotest).  *)
(*                                                                         *)
(*   Part 1  compare_results            search_C.py:54-109                 *)
(*   Part 2  the endpoint probers       search_C.py:31-48,                 *)
(*                                      cachecheck.py:38-68,               *)
(*                                      Information_Coverage.py:24-46      *)
(*   Part 3  process_question and main  search_C.py:111-279                *)
(*   Part 4  the record validator       hascache.py:40-82,                 *)
(*                                      ans_B.py:24-73                     *)
(*   Part 5  the reporting drivers      hascache.py:85-357,                *)
(*                                      ans_B.py:75-153,                   *)
(*                                      B_informationtype_cover.py:20-139  *)
(*   Part 6  the worker pool            cachecheck.py:13-108, 156-178      *)
(*                                                                         *)
(* Each part has its own variables and its own specification (SpecCompare, *)
(* SpecProbe, SpecDiff, SpecValidate, SpecReport, SpecPool); a             *)
(* specification holds the variables of the other parts at their idle      *)
(* values. SpecLoad starts the two aggregators of Part 5 on coverage files *)
(* they did not write whole, and SpecPoolFair is SpecPool under fair       *)
(* scheduling of the workers.                                              *)
(***************************************************************************)
EXTENDS Integers, Sequences, FiniteSets, TLC

VARIABLES
    \* Part 1: one call compare_results(old_ids, new_ids)
    cmp_old_ids,     \* the argument old_ids
    cmp_new_ids,     \* the argument new_ids
    cmp_result,      \* <<>> before the call, <<the returned dict>> after it
    \* Part 2: one call of a prober
    prb_kind,        \* which of the three retry loops runs
    prb_pc,          \* "entry", "loop", "sleep" or "returned"
    prb_uuid,        \* how many uuid4() values have been drawn
    prb_traceid,     \* the local variable traceid (NoTraceId before it is set)
    prb_outcomes,    \* what the endpoint did on each attempt so far
    prb_sent,        \* the traceid each attempt carried in its payload
    prb_log,         \* the failures printed so far
    prb_result,      \* <<>> before the return, <<the returned pair>> after it
    \* Part 3: main of search_C.py and the process_question call it is in
    questions,          \* main: the stripped non-empty lines of the input file
    q_done,             \* main: how many questions the for loop has been through
    pc,                 \* where main / process_question stands
    iteration,          \* process_question: the pass of "for _ in range(3)"
    uuid_drawn,         \* how many uuid4() values have been drawn
    retries_used,       \* failed request attempts so far
    old_results,        \* process_question: old_results
    new_results,        \* process_question: new_results
    min_diff,           \* process_question: <<>> or <<min_diff>>
    result,             \* main: <<>> for None, else <<(diff_records, total)>>
    rows,               \* the rows written to the output file after its header
    total_processed,    \* main: total_processed
    total_diffs_found,  \* main: total_diffs_found
    total_diff_items,   \* main: total_diff_items
    \* Part 4: one call of the record validator
    val_kind,        \* "hascache" (process_item_for_validation) or "ans_B"
    val_item,        \* the argument: one record of a response's data list
    val_save_reasons,\* the local list save_reasons when the call returns
    val_reasons,     \* <<>> before the call, <<the returned value>> after it
    \* Part 5: one of the three reporting drivers, run once or twice
    rp_kind,         \* "hascache", "ans_B" or "B_cover"
    rp_pc,           \* "start", "loop", "report" or "done"; "crashed_open"
                     \* or "crashed_row" after an exception nothing catches
    rp_run,          \* 1 in the first run of the program, 2 in the second
    rp_queries,      \* the queries read from the input file
    rp_answers,      \* what the endpoints answer to each request of a run
    rp_q,            \* how many queries the for loop has been through
    rp_e,            \* hascache: how many endpoints of the query were called
    rp_rows,         \* the rows of the validation file after its header
    rp_counters,     \* all_coverage_counters (hascache), total_counter (B_cover)
    rp_file,         \* the coverage file: NoFile or its rows
    rp_first,        \* <<>> or <<the counters at the end of the first run>>
    rp_writable,     \* whether the output files can be written
    \* Part 6: the three worker threads of cachecheck.py
    wk_build,        \* the interpreter: "gil" or "free_threaded"
    wk_writable,     \* whether appending to the output file succeeds
    wk_queries_data, \* queries_data: the "query" value of each entry
    wk_index,        \* query_iterator: how many entries it has handed out
    wk_pc,           \* where each worker stands
    wk_loaded,       \* the index a worker read inside next(query_iterator),
                     \* 0 outside the call
    wk_item,         \* the entry a worker is processing (0 for none)
    wk_lock,         \* the workers that hold file_lock
    wk_file,         \* the rows of the output file, the header first
    wk_taken         \* how many times each entry has been handed to a worker

cmp_vars == <<cmp_old_ids, cmp_new_ids, cmp_result>>

prb_vars == <<prb_kind, prb_pc, prb_uuid, prb_traceid, prb_outcomes, prb_sent,
              prb_log, prb_result>>

dq_vars == <<questions, q_done, pc, iteration, uuid_drawn, retries_used,
             old_results, new_results, min_diff, result, rows,
             total_processed, total_diffs_found, total_diff_items>>

val_vars == <<val_kind, val_item, val_save_reasons, val_reasons>>

rp_vars == <<rp_kind, rp_pc, rp_run, rp_queries, rp_answers, rp_q, rp_e,
             rp_rows, rp_counters, rp_file, rp_first, rp_writable>>

wk_vars == <<wk_build, wk_writable, wk_queries_data, wk_index, wk_pc,
             wk_loaded, wk_item, wk_lock, wk_file, wk_taken>>

vars == <<cmp_vars, prb_vars, dq_vars, val_vars, rp_vars, wk_vars>>

\* what the actions of one part leave alone
not_cmp_vars == <<prb_vars, dq_vars, val_vars, rp_vars, wk_vars>>
not_prb_vars == <<cmp_vars, dq_vars, val_vars, rp_vars, wk_vars>>
not_dq_vars == <<cmp_vars, prb_vars, val_vars, rp_vars, wk_vars>>
not_val_vars == <<cmp_vars, prb_vars, dq_vars, rp_vars, wk_vars>>
not_rp_vars == <<cmp_vars, prb_vars, dq_vars, val_vars, wk_vars>>
not_wk_vars == <<cmp_vars, prb_vars, dq_vars, val_vars, rp_vars>>

----------------------------------------------------------------------------
(* Bounds and helpers *)

\* number of distinct ids the id sequences are drawn from
NumIds == 3
\* longest id sequence handed to compare_results
MaxLen == 3

IdNames == <<"x", "y", "z", "w", "v">>
Ids == {IdNames[i] : i \in 1..NumIds}

\* most requests one prober call is followed through
MaxAttempts == 4

\* how many of the catalogued responses the endpoints may answer with
NumResponses == 4

\* how many of the catalogued answers the reporting drivers may be given
NumAnswers == 7

\* the value Python's "" has in the padded order-change entries
EmptyId == ""

Range(s) == {s[i] : i \in DOMAIN s}
BoundedSeq(S, n) == UNION {[1..k -> S] : k \in 0..n}
Min(a, b) == IF a <= b THEN a ELSE b
Max(a, b) == IF a >= b THEN a ELSE b
Abs(a) == IF a >= 0 THEN a ELSE 0 - a

\* the traceid of a payload that carries none, and of a log line without one
NoTraceId == 0

\* the "position" of a row that has none (Python's "")
NoPosition == -1

\* The values a part's variables keep while another part's specification runs
CmpIdle ==
    /\ cmp_old_ids = <<>>
    /\ cmp_new_ids = <<>>
    /\ cmp_result = <<>>

PrbIdle ==
    /\ prb_kind = "search_C"
    /\ prb_pc = "entry"
    /\ prb_uuid = 0
    /\ prb_traceid = NoTraceId
    /\ prb_outcomes = <<>>
    /\ prb_sent = <<>>
    /\ prb_log = <<>>
    /\ prb_result = <<>>

DqIdle ==
    /\ questions = <<>>
    /\ q_done = 0
    /\ pc = "next_question"
    /\ iteration = 0
    /\ uuid_drawn = 0
    /\ retries_used = 0
    /\ old_results = <<>>
    /\ new_results = <<>>
    /\ min_diff = <<>>
    /\ result = <<>>
    /\ rows = <<>>
    /\ total_processed = 0
    /\ total_diffs_found = 0
    /\ total_diff_items = 0

\* The values of a record's fields: a JSON string, JSON null (Python's
\* None), or no value at all when the record lacks the key
Str(s) == [kind |-> "str", s |-> s]
None == [kind |-> "null", s |-> ""]
Missing == [kind |-> "missing", s |-> ""]

\* the fields of a record that the validator reads
ItemFields == {"title", "showTime", "informationType", "source", "jumpUrl", "id"}

\* the record {}
EmptyItem == [f \in ItemFields |-> Missing]

ValIdle ==
    /\ val_kind = "hascache"
    /\ val_item = EmptyItem
    /\ val_save_reasons = <<>>
    /\ val_reasons = <<>>

\* A csv file: whether it exists and its rows, each a sequence of cells
NoFile == [exists |-> FALSE, rows |-> <<>>]
File(file_rows) == [exists |-> TRUE, rows |-> file_rows]

RpIdle ==
    /\ rp_kind = "hascache"
    /\ rp_pc = "start"
    /\ rp_run = 1
    /\ rp_queries = <<>>
    /\ rp_answers = <<>>
    /\ rp_q = 0
    /\ rp_e = 0
    /\ rp_rows = <<>>
    /\ rp_counters = <<>>
    /\ rp_file = NoFile
    /\ rp_first = <<>>
    /\ rp_writable = TRUE

\* the threads started by "for i in range(3)" (cachecheck.py:172)
NumWorkers == 3
Workers == 1..NumWorkers

\* longest list of entries the input file of cachecheck.py holds
MaxEntries == 2

WkIdle ==
    /\ wk_build = "gil"
    /\ wk_writable = TRUE
    /\ wk_queries_data = <<>>
    /\ wk_index = 0
    /\ wk_pc = [w \in Workers |-> "take"]
    /\ wk_loaded = [w \in Workers |-> 0]
    /\ wk_item = [w \in Workers |-> 0]
    /\ wk_lock = {}
    /\ wk_file = <<>>
    /\ wk_taken = <<>>

----------------------------------------------------------------------------
(* Part 1: compare_results, search_C.py:54-109 *)

\* set_diff = old_set != new_set                                 (lines 70-72)
set_diff(old_ids, new_ids) == Range(old_ids) # Range(new_ids)

\* only_in_old = list(old_set - new_set): a list without repetition whose
\* order Python leaves open; kept as the set of its elements       (line 73)
only_in_old(old_ids, new_ids) == Range(old_ids) \ Range(new_ids)

\* only_in_new = list(new_set - old_set)                           (line 74)
only_in_new(old_ids, new_ids) == Range(new_ids) \ Range(old_ids)

\* set_diff_count = len(only_in_old) + len(only_in_new)            (line 75)
set_diff_count(old_ids, new_ids) ==
    Cardinality(only_in_old(old_ids, new_ids))
        + Cardinality(only_in_new(old_ids, new_ids))

\* one order-change tuple (i, old_id, new_id); i is the 0-based position
OrderEntry(i, old_id, new_id) ==
    [position |-> i, old_id |-> old_id, new_id |-> new_id]

\* the loop "for i in range(min_len)" from 1-based index k on: the entries
\* it appends                                                  (lines 84-87)
RECURSIVE positional_entries(_, _, _)
positional_entries_one_based(old_ids, new_ids, k) ==
    IF k > Min(Len(old_ids), Len(new_ids)) THEN <<>>
    ELSE (IF old_ids[k] # new_ids[k]
             THEN <<OrderEntry(k, old_ids[k], new_ids[k])>>
             ELSE <<>>)
         \o positional_entries(old_ids, new_ids, k + 1)
positional_entries(old_ids, new_ids, k) ==
    IF k > Min(Len(old_ids), Len(new_ids)) THEN <<>>
    ELSE (IF old_ids[k] # new_ids[k]
             THEN <<OrderEntry(k - 1, old_ids[k], new_ids[k])>>
             ELSE <<>>)
         \o positional_entries(old_ids, new_ids, k + 1)

\* the same loop's "order_diff_count += 1", counted as the code counts it
\* (a counter of its own, not the length of the list)             (line 88)
RECURSIVE positional_count(_, _, _)
positional_count_inverted(old_ids, new_ids, k) ==
    IF k > Min(Len(old_ids), Len(new_ids)) THEN 0
    ELSE (IF old_ids[k] = new_ids[k] THEN 1 ELSE 0)
         + positional_count(old_ids, new_ids, k + 1)
positional_count(old_ids, new_ids, k) ==
    IF k > Min(Len(old_ids), Len(new_ids)) THEN 0
    ELSE (IF old_ids[k] # new_ids[k] THEN 1 ELSE 0)
         + positional_count(old_ids, new_ids, k + 1)

\* "for i in range(min_len, max(len(old_ids), len(new_ids)))": the padded
\* entries of the trailing positions, from 0-based position i on
\*                                                             (lines 95-98)
RECURSIVE trailing_entries(_, _, _)
trailing_entries_no_pad(old_ids, new_ids, i) ==
    IF i >= Max(Len(old_ids), Len(new_ids)) THEN <<>>
    ELSE <<OrderEntry(i,
                      IF i < Len(old_ids) THEN old_ids[i + 1] ELSE new_ids[i + 1],
                      IF i < Len(new_ids) THEN new_ids[i + 1] ELSE old_ids[i + 1])>>
         \o trailing_entries(old_ids, new_ids, i + 1)
trailing_entries(old_ids, new_ids, i) ==
    IF i >= Max(Len(old_ids), Len(new_ids)) THEN <<>>
    ELSE <<OrderEntry(i,
                      IF i < Len(old_ids) THEN old_ids[i + 1] ELSE EmptyId,
                      IF i < Len(new_ids) THEN new_ids[i + 1] ELSE EmptyId)>>
         \o trailing_entries(old_ids, new_ids, i + 1)

\* order_changed as the function leaves it                     (lines 79-98)
order_changed_unguarded(old_ids, new_ids) ==
    positional_entries(old_ids, new_ids, 1)
        \o (IF Len(old_ids) # Len(new_ids)
               THEN trailing_entries(old_ids, new_ids,
                                     Min(Len(old_ids), Len(new_ids)))
               ELSE <<>>)
order_changed(old_ids, new_ids) ==
    IF ~set_diff(old_ids, new_ids)
    THEN positional_entries(old_ids, new_ids, 1)
            \o (IF Len(old_ids) # Len(new_ids)
                   THEN trailing_entries(old_ids, new_ids,
                                         Min(Len(old_ids), Len(new_ids)))
                   ELSE <<>>)
    ELSE <<>>

\* order_diff as the function leaves it            (lines 78, 82, 86, 92)
order_diff(old_ids, new_ids) ==
    /\ ~set_diff(old_ids, new_ids)
    /\ \/ positional_count(old_ids, new_ids, 1) > 0
       \/ Len(old_ids) # Len(new_ids)

\* order_diff_count as the function leaves it      (lines 80, 88, 93-94)
order_diff_count_ignored(old_ids, new_ids) == 0
order_diff_count_no_length(old_ids, new_ids) ==
    IF ~set_diff(old_ids, new_ids)
    THEN positional_count(old_ids, new_ids, 1)
    ELSE 0
order_diff_count(old_ids, new_ids) ==
    IF ~set_diff(old_ids, new_ids)
    THEN positional_count(old_ids, new_ids, 1)
            + (IF Len(old_ids) # Len(new_ids)
                  THEN Abs(Len(old_ids) - Len(new_ids))
                  ELSE 0)
    ELSE 0

\* the returned dict                                         (lines 100-109)
compare_results(old_ids, new_ids) ==
    [set_diff         |-> set_diff(old_ids, new_ids),
     order_diff       |-> order_diff(old_ids, new_ids),
     only_in_old      |-> only_in_old(old_ids, new_ids),
     only_in_new      |-> only_in_new(old_ids, new_ids),
     order_changed    |-> order_changed(old_ids, new_ids),
     total_diff_count |-> set_diff_count(old_ids, new_ids)
                            + order_diff_count(old_ids, new_ids),
     set_diff_count   |-> set_diff_count(old_ids, new_ids),
     order_diff_count |-> order_diff_count(old_ids, new_ids)]

InitCompare ==
    /\ cmp_old_ids \in BoundedSeq(Ids, MaxLen)
    /\ cmp_new_ids \in BoundedSeq(Ids, MaxLen)
    /\ cmp_result = <<>>
    /\ PrbIdle
    /\ DqIdle
    /\ ValIdle
    /\ RpIdle
    /\ WkIdle

\* the call compare_results(old_ids, new_ids)
CompareResults ==
    /\ cmp_result = <<>>
    /\ cmp_result' = <<compare_results(cmp_old_ids, cmp_new_ids)>>
    /\ UNCHANGED <<cmp_old_ids, cmp_new_ids>>
    /\ UNCHANGED not_cmp_vars

NextCompare == CompareResults

SpecCompare == InitCompare /\ [][NextCompare]_vars

CmpDone == cmp_result # <<>>
CmpOut == cmp_result[1]


----------------------------------------------------------------------------
(* Part 2: the endpoint probers                                            *)
(*   search_C.py:31-48              call_api_with_retry                    *)
(*   Information_Coverage.py:24-46  call_api_with_retry                    *)
(*   cachecheck.py:38-68            the request loop of process_query      *)

ProberKinds == {"search_C", "information_coverage", "cachecheck"}

\* what makes requests.post, raise_for_status or response.json() raise:
\* a timeout, a refused connection, a non-2xx status, a body that is no JSON
Errors == {"Timeout", "ConnectionError", "HTTPError", "JSONDecodeError"}

\* what response.json() returns when nothing raises: the parsed body, a JSON
\* object or the JSON value null (Python's None)
Bodies == {"object", "null"}

Outcomes == Errors \cup Bodies

\* str(uuid.uuid4()): a value no earlier draw returned; the n-th draw is n
uuid4(drawn) == drawn + 1

InitProbe ==
    /\ CmpIdle
    /\ DqIdle
    /\ ValIdle
    /\ RpIdle
    /\ WkIdle
    /\ prb_kind \in ProberKinds
    /\ prb_pc = "entry"
    /\ prb_uuid = 0
    /\ prb_traceid = NoTraceId
    /\ prb_outcomes = <<>>
    /\ prb_sent = <<>>
    /\ prb_log = <<>>
    /\ prb_result = <<>>

\* search_C.py:31-33: the function is entered; nothing is set before the loop
EnterSearchC ==
    /\ prb_kind = "search_C"
    /\ prb_pc = "entry"
    /\ prb_pc' = "loop"
    /\ UNCHANGED <<prb_kind, prb_uuid, prb_traceid, prb_outcomes, prb_sent,
                   prb_log, prb_result>>
    /\ UNCHANGED not_prb_vars

\* search_C.py:34-48: one pass of "while True": a new traceid, the request,
\* then the return or the except branch (print, then sleep)
AttemptSearchC ==
    /\ prb_kind = "search_C"
    /\ prb_pc = "loop"
    /\ Len(prb_outcomes) < MaxAttempts
    /\ \E outcome \in Outcomes :
        LET traceid == uuid4(prb_uuid) IN
        /\ prb_uuid' = prb_uuid + 1
        /\ prb_traceid' = traceid
        /\ prb_sent' = Append(prb_sent, traceid)
        /\ prb_outcomes' = Append(prb_outcomes, outcome)
        /\ IF outcome \in Errors
           THEN /\ prb_log' = Append(prb_log, [error |-> outcome, traceid |-> traceid])
                /\ prb_pc' = "sleep"
                /\ UNCHANGED prb_result
           ELSE /\ prb_result' = <<[response |-> outcome, traceid |-> traceid]>>
                /\ prb_pc' = "returned"
                /\ UNCHANGED prb_log
    /\ UNCHANGED prb_kind
    /\ UNCHANGED not_prb_vars

\* Information_Coverage.py:26-32: traceid and payload are built once, before
\* the loop
EnterInformationCoverage ==
    /\ prb_kind = "information_coverage"
    /\ prb_pc = "entry"
    /\ prb_traceid' = uuid4(prb_uuid)
    /\ prb_uuid' = prb_uuid + 1
    /\ prb_pc' = "loop"
    /\ UNCHANGED <<prb_kind, prb_outcomes, prb_sent, prb_log, prb_result>>
    /\ UNCHANGED not_prb_vars

\* Information_Coverage.py:34-46: one pass of "while True" with the payload
\* built before the loop
AttemptInformationCoverage ==
    /\ prb_kind = "information_coverage"
    /\ prb_pc = "loop"
    /\ Len(prb_outcomes) < MaxAttempts
    /\ \E outcome \in Outcomes :
        /\ prb_sent' = Append(prb_sent, prb_traceid)
        /\ prb_outcomes' = Append(prb_outcomes, outcome)
        /\ IF outcome \in Errors
           THEN /\ prb_log' = Append(prb_log, [error |-> outcome, traceid |-> prb_traceid])
                /\ prb_pc' = "sleep"
                /\ UNCHANGED prb_result
           ELSE /\ prb_result' = <<[response |-> outcome, traceid |-> prb_traceid]>>
                /\ prb_pc' = "returned"
                /\ UNCHANGED prb_log
    /\ UNCHANGED <<prb_kind, prb_uuid, prb_traceid>>
    /\ UNCHANGED not_prb_vars

\* cachecheck.py:35-39: the payload is base_payload plus the query (it has no
\* traceid); response_json = None, attempt = 0
EnterCacheCheck ==
    /\ prb_kind = "cachecheck"
    /\ prb_pc = "entry"
    /\ prb_pc' = "loop"
    /\ UNCHANGED <<prb_kind, prb_uuid, prb_traceid, prb_outcomes, prb_sent,
                   prb_log, prb_result>>
    /\ UNCHANGED not_prb_vars

\* cachecheck.py:40-68: one pass of "while response_json is None". Every
\* except branch prints and sleeps; when nothing raises, response_json is the
\* parsed body, and the loop ends only if that is not None. attempt is
\* Len(prb_outcomes).
AttemptCacheCheck ==
    /\ prb_kind = "cachecheck"
    /\ prb_pc = "loop"
    /\ Len(prb_outcomes) < MaxAttempts
    /\ \E outcome \in Outcomes :
        /\ prb_sent' = Append(prb_sent, NoTraceId)
        /\ prb_outcomes' = Append(prb_outcomes, outcome)
        /\ IF outcome \in Errors
           THEN /\ prb_log' = Append(prb_log, [error |-> outcome, traceid |-> NoTraceId])
                /\ prb_pc' = "sleep"
                /\ UNCHANGED prb_result
           ELSE IF outcome = "null"
           THEN /\ prb_pc' = "loop"
                /\ UNCHANGED <<prb_log, prb_result>>
           ELSE /\ prb_result' = <<[response |-> outcome, traceid |-> NoTraceId]>>
                /\ prb_pc' = "returned"
                /\ UNCHANGED prb_log
    /\ UNCHANGED <<prb_kind, prb_uuid, prb_traceid>>
    /\ UNCHANGED not_prb_vars

\* time.sleep(0.5) / time.sleep(retry_delay_seconds) ends and the loop goes
\* round (search_C.py:47-48, Information_Coverage.py:46, cachecheck.py:55-68)
RetrySleep ==
    /\ prb_pc = "sleep"
    /\ prb_pc' = "loop"
    /\ UNCHANGED <<prb_kind, prb_uuid, prb_traceid, prb_outcomes, prb_sent,
                   prb_log, prb_result>>
    /\ UNCHANGED not_prb_vars

NextProbe ==
    \/ EnterSearchC
    \/ AttemptSearchC
    \/ EnterInformationCoverage
    \/ AttemptInformationCoverage
    \/ EnterCacheCheck
    \/ AttemptCacheCheck
    \/ RetrySleep

SpecProbe == InitProbe /\ [][NextProbe]_vars

PrbReturned == prb_pc = "returned"
PrbLast == prb_outcomes[Len(prb_outcomes)]

----------------------------------------------------------------------------
(* Part 3: process_question and main, search_C.py:111-279 *)

\* "for _ in range(3)"                                            (line 117)
NumSamples == 3

\* f"old_{len(old_results)+1}", f"new_{len(new_results)+1}" (lines 125, 134)
OldSources == <<"old_1", "old_2", "old_3">>
NewSources == <<"new_1", "new_2", "new_3">>

\* the input file's stripped, non-empty lines                (lines 228-229)
Corpus == <<"q1">>

\* how many attempts of one call_api_with_retry call raise before one
\* succeeds; a run of main is followed through one failed attempt in all
FailedAttempts == {0, 1}

\* One element of a response's "data" list: a dict with or without an "id".
Item(id) == [has_id |-> TRUE, id |-> id]
ItemWithoutId == [has_id |-> FALSE, id |-> ""]

\* A parsed response body: a dict or not; and for a dict, whether "data" is
\* a list ("list"), is missing ("absent") or is null ("null").
JsonDict(data_kind, data) == [is_dict |-> TRUE, data_kind |-> data_kind, data |-> data]
JsonNotADict == [is_dict |-> FALSE, data_kind |-> "absent", data |-> <<>>]

\* The bodies an endpoint answers with; the first NumResponses are used.
Responses ==
    << JsonDict("list", <<Item("x"), Item("y")>>),
       JsonDict("list", <<Item("y"), Item("x")>>),
       JsonDict("list", <<Item("x"), Item("z")>>),
       JsonDict("null", <<>>),
       JsonNotADict,
       JsonDict("list", <<Item("x"), Item("y"), Item("x")>>),
       JsonDict("list", <<Item("x"), ItemWithoutId, Item("y")>>),
       JsonDict("absent", <<>>) >>

\* "old_res if isinstance(old_res, dict) else {}"          (lines 121, 130)
dict_or_empty(res) == IF res.is_dict THEN res ELSE JsonDict("absent", <<>>)

\* extract_ids raises TypeError when response.get("data", []) is None
\*                                                                 (line 52)
extract_ids_raises(response) == response.data_kind = "null"

RECURSIVE ids_from(_, _)
ids_from(data, k) ==
    IF k > Len(data) THEN <<>>
    ELSE (IF data[k].has_id THEN <<data[k].id>> ELSE <<>>) \o ids_from(data, k + 1)

\* [item["id"] for item in response.get("data", []) if "id" in item]
\*                                                                 (line 52)
extract_ids(response) ==
    IF response.data_kind = "absent" THEN <<>> ELSE ids_from(response.data, 1)

\* the traceid call_api_with_retry returns when its first `failed` attempts
\* raise and the next one does not: every attempt draws a uuid (lines 33-48)
returned_traceid(drawn, failed) == drawn + failed + 1

\* list(product(old_results, new_results)): old index major        (line 155)
all_combinations_paired(olds, news) ==
    [k \in 1..Min(Len(olds), Len(news)) |-> <<olds[k], news[k]>>]
all_combinations(olds, news) ==
    [k \in 1..(Len(olds) * Len(news)) |->
        <<olds[((k - 1) \div Len(news)) + 1], news[((k - 1) % Len(news)) + 1]>>]

\* the list compared_results                                (lines 159-170)
compared_results(olds, news) ==
    LET combos == all_combinations(olds, news) IN
    [k \in DOMAIN combos |->
        [diff_analysis |-> compare_results(combos[k][1].ids, combos[k][2].ids),
         old_traceid   |-> combos[k][1].traceid,
         new_traceid   |-> combos[k][2].traceid,
         old_source    |-> combos[k][1].source,
         new_source    |-> combos[k][2].source,
         old_ids       |-> combos[k][1].ids,
         new_ids       |-> combos[k][2].ids]]

\* min(compared_results, key=total_diff_count) from index k on with the best
\* so far: Python's min keeps the first of equal keys           (line 173)
RECURSIVE min_from(_, _, _)
min_from_keeps_last(seq, k, best) ==
    IF k > Len(seq) THEN best
    ELSE min_from(seq, k + 1,
                  IF seq[k].diff_analysis.total_diff_count
                        <= best.diff_analysis.total_diff_count
                  THEN seq[k] ELSE best)
min_from(seq, k, best) ==
    IF k > Len(seq) THEN best
    ELSE min_from(seq, k + 1,
                  IF seq[k].diff_analysis.total_diff_count
                        < best.diff_analysis.total_diff_count
                  THEN seq[k] ELSE best)

\* the orders in which list(a set) may hold the set's elements (lines 73-74)
Orderings(S) ==
    {f \in [1..Cardinality(S) -> S] : \A i, j \in DOMAIN f : i # j => f[i] # f[j]}

\* the record of an id only the old side has                (lines 186-195)
only_in_old_record_both_traceids(question, md, id) ==
    [question |-> question, old_id |-> id, new_id |-> "",
     diff_type |-> "only_in_old",
     old_traceid |-> md.old_traceid, new_traceid |-> md.new_traceid,
     position |-> NoPosition,
     source_combo |-> <<md.old_source, md.new_source>>]
only_in_old_record(question, md, id) ==
    [question |-> question, old_id |-> id, new_id |-> "",
     diff_type |-> "only_in_old",
     old_traceid |-> md.old_traceid, new_traceid |-> NoTraceId,
     position |-> NoPosition,
     source_combo |-> <<md.old_source, md.new_source>>]

\* the record of an id only the new side has                (lines 198-207)
only_in_new_record(question, md, id) ==
    [question |-> question, old_id |-> "", new_id |-> id,
     diff_type |-> "only_in_new",
     old_traceid |-> NoTraceId, new_traceid |-> md.new_traceid,
     position |-> NoPosition,
     source_combo |-> <<md.old_source, md.new_source>>]

\* the record of one order-change entry                     (lines 212-221)
order_diff_record(question, md, entry) ==
    [question |-> question, old_id |-> entry.old_id, new_id |-> entry.new_id,
     diff_type |-> "order_diff",
     old_traceid |-> md.old_traceid, new_traceid |-> md.new_traceid,
     position |-> entry.position,
     source_combo |-> <<md.old_source, md.new_source>>]

\* diff_records, with only_in_old and only_in_new in the list orders oo, on
\*                                                          (lines 182-221)
diff_records_set_only(question, md, oo, on) ==
    [i \in DOMAIN oo |-> only_in_old_record(question, md, oo[i])]
        \o [i \in DOMAIN on |-> only_in_new_record(question, md, on[i])]
diff_records(question, md, oo, on) ==
    LET best == md.diff_analysis IN
    [i \in DOMAIN oo |-> only_in_old_record(question, md, oo[i])]
        \o [i \in DOMAIN on |-> only_in_new_record(question, md, on[i])]
        \o (IF best.order_diff
               THEN [i \in DOMAIN best.order_changed |->
                        order_diff_record(question, md, best.order_changed[i])]
               ELSE <<>>)

\* what process_question returns once min_diff is known: None (<<>>) when
\* the best pair has no difference, else (diff_records, total_diff_count)
\*                                                          (lines 174-224)
process_question_return_always(question, md, oo, on) ==
    <<[diff_records |-> diff_records(question, md, oo, on),
       total_diff   |-> md.diff_analysis.total_diff_count]>>
process_question_return(question, md, oo, on) ==
    IF md.diff_analysis.total_diff_count = 0
    THEN <<>>
    ELSE <<[diff_records |-> diff_records(question, md, oo, on),
            total_diff   |-> md.diff_analysis.total_diff_count]>>

\* record.update({"timestamp": ..., "total_diff_count": total_diff}); the
\* timestamp (the wall clock) is left out                   (lines 255-258)
written_row(record, total_diff) ==
    [question |-> record.question, old_id |-> record.old_id,
     new_id |-> record.new_id, diff_type |-> record.diff_type,
     old_traceid |-> record.old_traceid, new_traceid |-> record.new_traceid,
     position |-> record.position, total_diff_count |-> total_diff,
     source_combo |-> record.source_combo]

InitDiff ==
    /\ CmpIdle
    /\ PrbIdle
    /\ ValIdle
    /\ RpIdle
    /\ WkIdle
    /\ questions \in {SubSeq(Corpus, 1, n) : n \in 0..Len(Corpus)}
    /\ q_done = 0
    /\ pc = "next_question"
    /\ iteration = 0
    /\ uuid_drawn = 0
    /\ retries_used = 0
    /\ old_results = <<>>
    /\ new_results = <<>>
    /\ min_diff = <<>>
    /\ result = <<>>
    /\ rows = <<>>
    /\ total_processed = 0
    /\ total_diffs_found = 0
    /\ total_diff_items = 0

\* the end of one pass of "for _ in range(3)"
EndOfPass ==
    IF iteration = NumSamples
    THEN pc' = "select" /\ UNCHANGED iteration
    ELSE pc' = "old_call" /\ iteration' = iteration + 1

\* main takes the next question and calls process_question  (lines 244-246,
\* 114-117)
StartQuestion ==
    /\ pc = "next_question"
    /\ q_done < Len(questions)
    /\ old_results' = <<>>
    /\ new_results' = <<>>
    /\ min_diff' = <<>>
    /\ result' = <<>>
    /\ iteration' = 1
    /\ pc' = "old_call"
    /\ UNCHANGED <<questions, q_done, uuid_drawn, retries_used, rows,
                   total_processed, total_diffs_found, total_diff_items>>
    /\ UNCHANGED not_dq_vars

\* the old endpoint is called until it answers, its ids are extracted and
\* the sample is appended; an exception ends the pass       (lines 118-126,
\* 138-140)
CallOld ==
    /\ pc = "old_call"
    /\ \E failed \in FailedAttempts, r \in 1..NumResponses :
        /\ retries_used = 0 \/ failed = 0
        /\ LET old_res == dict_or_empty(Responses[r])
               old_traceid == returned_traceid(uuid_drawn, failed)
           IN  /\ uuid_drawn' = old_traceid
               /\ retries_used' = retries_used + failed
               /\ IF extract_ids_raises(old_res)
                  THEN /\ EndOfPass
                       /\ UNCHANGED old_results
                  ELSE /\ old_results' = Append(old_results,
                               [ids |-> extract_ids(old_res),
                                traceid |-> old_traceid,
                                source |-> OldSources[Len(old_results) + 1]])
                       /\ pc' = "new_call"
                       /\ UNCHANGED iteration
    /\ UNCHANGED <<questions, q_done, new_results, min_diff, result, rows,
                   total_processed, total_diffs_found, total_diff_items>>
    /\ UNCHANGED not_dq_vars

\* the same for the new endpoint, then time.sleep(0.2)      (lines 128-140)
CallNew ==
    /\ pc = "new_call"
    /\ \E failed \in FailedAttempts, r \in 1..NumResponses :
        /\ retries_used = 0 \/ failed = 0
        /\ LET new_res == dict_or_empty(Responses[r])
               new_traceid == returned_traceid(uuid_drawn, failed)
           IN  /\ uuid_drawn' = new_traceid
               /\ retries_used' = retries_used + failed
               /\ IF extract_ids_raises(new_res)
                  THEN UNCHANGED new_results
                  ELSE new_results' = Append(new_results,
                               [ids |-> extract_ids(new_res),
                                traceid |-> new_traceid,
                                source |-> NewSources[Len(new_results) + 1]])
               /\ EndOfPass
    /\ UNCHANGED <<questions, q_done, old_results, min_diff, result, rows,
                   total_processed, total_diffs_found, total_diff_items>>
    /\ UNCHANGED not_dq_vars

\* the rest of process_question: None when a side has no sample, else the
\* best pair and what is returned for it                    (lines 142-224)
SelectPair ==
    /\ pc = "select"
    /\ IF old_results = <<>> \/ new_results = <<>>
       THEN /\ min_diff' = <<>>
            /\ result' = <<>>
       ELSE LET compared == compared_results(old_results, new_results)
                md == min_from(compared, 2, compared[1])
            IN  /\ min_diff' = <<md>>
                /\ \E oo \in Orderings(md.diff_analysis.only_in_old),
                      on \in Orderings(md.diff_analysis.only_in_new) :
                        result' = process_question_return(
                                      questions[q_done + 1], md, oo, on)
    /\ pc' = "returned"
    /\ UNCHANGED <<questions, q_done, iteration, uuid_drawn, retries_used,
                   old_results, new_results, rows,
                   total_processed, total_diffs_found, total_diff_items>>
    /\ UNCHANGED not_dq_vars

\* main counts the question and writes its rows             (lines 247-266)
RecordResult ==
    /\ pc = "returned"
    /\ total_processed' = total_processed + 1
    /\ IF result # <<>>
       THEN /\ total_diffs_found' = total_diffs_found + 1
            /\ total_diff_items' = total_diff_items + result[1].total_diff
            /\ rows' = rows \o [i \in DOMAIN result[1].diff_records |->
                                  written_row(result[1].diff_records[i],
                                              result[1].total_diff)]
       ELSE UNCHANGED <<total_diffs_found, total_diff_items, rows>>
    /\ q_done' = q_done + 1
    /\ pc' = "next_question"
    /\ UNCHANGED <<questions, iteration, uuid_drawn, retries_used,
                   old_results, new_results, min_diff, result>>
    /\ UNCHANGED not_dq_vars

\* the final report: it divides by len(questions) and by total_processed
\*                                                          (lines 271-279)
Summary ==
    /\ pc = "next_question"
    /\ q_done = Len(questions)
    /\ pc' = IF Len(questions) = 0 \/ total_processed = 0
             THEN "crashed" ELSE "done"
    /\ UNCHANGED <<questions, q_done, iteration, uuid_drawn, retries_used,
                   old_results, new_results, min_diff, result, rows,
                   total_processed, total_diffs_found, total_diff_items>>
    /\ UNCHANGED not_dq_vars

NextDiff ==
    \/ StartQuestion
    \/ CallOld
    \/ CallNew
    \/ SelectPair
    \/ RecordResult
    \/ Summary

SpecDiff == InitDiff /\ [][NextDiff]_vars

----------------------------------------------------------------------------
(* Part 4: the record validator                                            *)
(*   hascache.py:40-82   is_empty, check_id_prefix,                        *)
(*                       process_item_for_validation                       *)
(*   ans_B.py:24-73      is_empty, check_id_prefix, process_chunk          *)

ValidatorKinds == {"hascache", "ans_B"}

\* CHECK_SOURCE_TYPES (hascache.py:31, ans_B.py:11), used for membership only
CHECK_SOURCE_TYPES_no_hot_news ==
    {"NEWS", "CFH", "LAW", "BOND", "WECHAT", "INTERACTION"}
CHECK_SOURCE_TYPES ==
    {"NEWS", "CFH", "LAW", "BOND", "WECHAT", "INTERACTION", "HOT_NEWS"}

\* the literal list of the jumpUrl rule (hascache.py:74, ans_B.py:63)
JUMP_URL_TYPES == {"WECHAT", "HOT_NEWS", "INV_NEWS"}

\* ID_PREFIX_RULES (hascache.py:32-35, ans_B.py:14-22)
ID_PREFIX_RULES_with_wechat ==
    [NEWS |-> "NW", REPORT |-> "AP", NOTICE |-> "AN", LAW |-> "LA",
     BOND |-> "BOND", INTERACTION |-> "PS", CFH |-> "", WECHAT |-> "WX"]
ID_PREFIX_RULES ==
    [NEWS |-> "NW", REPORT |-> "AP", NOTICE |-> "AN", LAW |-> "LA",
     BOND |-> "BOND", INTERACTION |-> "PS", CFH |-> ""]

\* the prefixes a CFH id is tested against (hascache.py:53, ans_B.py:37)
OTHER_PREFIXES == <<"NW", "AP", "AN", "LA", "BOND", "PS">>

\* is_empty(value): value is None or value == ""
is_empty_none_only(value) == value = None
is_empty(value) == value = None \/ value = Str("")

\* item.get(field): None when the key is missing
get(item, field) == IF item[field] = Missing THEN None ELSE item[field]

\* value in <a list of strings>
in_types(value, types) == value.kind = "str" /\ value.s \in types

\* str.startswith(prefix)
startswith(s, prefix) ==
    /\ Len(s) >= Len(prefix)
    /\ SubSeq(s, 1, Len(prefix)) = prefix

\* item_id[:n] if len(item_id) >= n else item_id
head_of(s, n) == IF Len(s) >= n THEN SubSeq(s, 1, n) ELSE s

\* "; ".join(reasons)
RECURSIVE join(_, _)
join(sep, reasons) ==
    IF reasons = <<>> THEN ""
    ELSE IF Len(reasons) = 1 THEN reasons[1]
    ELSE reasons[1] \o sep \o join(sep, Tail(reasons))

\* check_id_prefix(item_id, info_type) of hascache.py:45-60; both arguments
\* are Python strings, the result is None or the reason (the reasons are
\* written here in English, with the source's layout)
check_id_prefix_ignores_cfh(item_id, info_type) ==
    IF info_type \notin DOMAIN ID_PREFIX_RULES THEN None
    ELSE IF info_type = "CFH" THEN None
    ELSE IF ~startswith(item_id, ID_PREFIX_RULES[info_type])
        THEN Str("ID prefix should be " \o ID_PREFIX_RULES[info_type] \o " but is: "
                 \o head_of(item_id, Len(ID_PREFIX_RULES[info_type])))
    ELSE None
check_id_prefix_first_letter(item_id, info_type) ==
    IF info_type \notin DOMAIN ID_PREFIX_RULES THEN None
    ELSE IF info_type = "CFH"
        THEN IF \E k \in DOMAIN OTHER_PREFIXES :
                    startswith(item_id, OTHER_PREFIXES[k])
                THEN Str("ID should have no prefix but is: " \o head_of(item_id, 2))
                ELSE None
    ELSE IF ~startswith(item_id, head_of(ID_PREFIX_RULES[info_type], 1))
        THEN Str("ID prefix should be " \o ID_PREFIX_RULES[info_type] \o " but is: "
                 \o head_of(item_id, Len(ID_PREFIX_RULES[info_type])))
    ELSE None
check_id_prefix(item_id, info_type) ==
    IF info_type \notin DOMAIN ID_PREFIX_RULES THEN None
    ELSE IF info_type = "CFH"
        THEN IF \E k \in DOMAIN OTHER_PREFIXES :
                    startswith(item_id, OTHER_PREFIXES[k])
                THEN Str("ID should have no prefix but is: " \o head_of(item_id, 2))
                ELSE None
    ELSE IF ~startswith(item_id, ID_PREFIX_RULES[info_type])
        THEN Str("ID prefix should be " \o ID_PREFIX_RULES[info_type] \o " but is: "
                 \o head_of(item_id, Len(ID_PREFIX_RULES[info_type])))
    ELSE None

\* check_id_prefix(item_id, info_type) of ans_B.py:28-45, which hands the
\* tuple of prefixes to one startswith call
ans_B_check_id_prefix(item_id, info_type) ==
    IF info_type \notin DOMAIN ID_PREFIX_RULES THEN None
    ELSE IF info_type = "CFH"
        THEN IF \E prefix \in Range(OTHER_PREFIXES) : startswith(item_id, prefix)
                THEN Str("ID should have no prefix but is: " \o head_of(item_id, 2))
                ELSE None
    ELSE IF ~startswith(item_id, ID_PREFIX_RULES[info_type])
        THEN Str("ID prefix should be " \o ID_PREFIX_RULES[info_type] \o " but is: "
                 \o head_of(item_id, Len(ID_PREFIX_RULES[info_type])))
    ELSE None

\* "if prefix_reason:": neither None nor the empty string
truthy(value) == value # None /\ value # Str("")

\* required_fields (hascache.py:66, ans_B.py:52)
REQUIRED_FIELDS == <<"title", "showTime", "informationType">>

\* "for field in required_fields" from the k-th field on: the reasons it
\* appends (hascache.py:67-69, ans_B.py:53-55)
RECURSIVE required_reasons(_, _)
required_reasons(item, k) ==
    IF k > Len(REQUIRED_FIELDS) THEN <<>>
    ELSE (IF is_empty(get(item, REQUIRED_FIELDS[k]))
             THEN <<REQUIRED_FIELDS[k] \o " is empty (null or '')">>
             ELSE <<>>)
         \o required_reasons(item, k + 1)

\* the source rule (hascache.py:71-72)
source_reasons(item) ==
    IF in_types(get(item, "informationType"), CHECK_SOURCE_TYPES)
          /\ is_empty(get(item, "source"))
        THEN <<"source is empty (null or '') but informationType needs it">>
        ELSE <<>>

\* the jumpUrl rule (hascache.py:74-75)
jump_url_reasons(item) ==
    IF in_types(get(item, "informationType"), JUMP_URL_TYPES)
          /\ is_empty(get(item, "jumpUrl"))
        THEN <<"jumpUrl is empty (null or '') but informationType needs it">>
        ELSE <<>>

\* the id-prefix rule (hascache.py:77-80)
prefix_reasons(item) ==
    IF in_types(get(item, "informationType"), DOMAIN ID_PREFIX_RULES)
          /\ ~is_empty(get(item, "id"))
        THEN LET prefix_reason ==
                     check_id_prefix(item["id"].s, item["informationType"].s)
             IN  IF truthy(prefix_reason) THEN <<prefix_reason.s>> ELSE <<>>
        ELSE <<>>

\* the list save_reasons of process_item_for_validation at its return
\* (hascache.py:65-80)
save_reasons_short_circuit(item) ==
    IF required_reasons(item, 1) # <<>> THEN required_reasons(item, 1)
    ELSE IF source_reasons(item) # <<>> THEN source_reasons(item)
    ELSE IF jump_url_reasons(item) # <<>> THEN jump_url_reasons(item)
    ELSE prefix_reasons(item)
save_reasons(item) ==
    required_reasons(item, 1) \o source_reasons(item)
        \o jump_url_reasons(item) \o prefix_reasons(item)

\* process_item_for_validation(item) (hascache.py:63-82)
process_item_for_validation(item) ==
    IF save_reasons(item) # <<>> THEN Str(join("; ", save_reasons(item)))
    ELSE None

\* the list save_reasons of process_chunk at its return (ans_B.py:49-71):
\* the same rules with the two conditions of each nested
process_chunk_save_reasons(chunk) ==
    required_reasons(chunk, 1)
    \o (IF in_types(get(chunk, "informationType"), CHECK_SOURCE_TYPES)
           THEN IF is_empty(get(chunk, "source"))
                   THEN <<"source is empty (null or '') but informationType needs it">>
                   ELSE <<>>
           ELSE <<>>)
    \o (IF in_types(get(chunk, "informationType"), JUMP_URL_TYPES)
           THEN IF is_empty(get(chunk, "jumpUrl"))
                   THEN <<"jumpUrl is empty (null or '') but informationType needs it">>
                   ELSE <<>>
           ELSE <<>>)
    \o (IF in_types(get(chunk, "informationType"), DOMAIN ID_PREFIX_RULES)
              /\ ~is_empty(get(chunk, "id"))
           THEN LET prefix_reason ==
                        ans_B_check_id_prefix(chunk["id"].s,
                                              chunk["informationType"].s)
                IN  IF truthy(prefix_reason) THEN <<prefix_reason.s>> ELSE <<>>
           ELSE <<>>)

\* process_chunk(chunk) (ans_B.py:47-73)
process_chunk(chunk) ==
    IF process_chunk_save_reasons(chunk) # <<>>
        THEN Str(join("; ", process_chunk_save_reasons(chunk)))
        ELSE None

\* The records the validator is handed: every field is missing, null, empty
\* or a string
ValItems ==
    LET TextValues == {Missing, None, Str(""), Str("v")}
        TypeValues ==
            {Missing, None, Str("")}
            \cup {Str(t) : t \in {"NEWS", "REPORT", "NOTICE", "LAW", "BOND",
                                  "INTERACTION", "CFH", "WECHAT", "INV_NEWS",
                                  "HOT_NEWS", "OTHER"}}
        IdValues ==
            {Missing, None, Str("")}
            \cup {Str(id) : id \in {"NW123", "AP123", "AN1", "LA", "BOND1",
                                    "PS1", "BO", "N", "X1"}}
    IN  {[f \in ItemFields |->
            CASE f = "title" -> t
              [] f = "showTime" -> st
              [] f = "informationType" -> it
              [] f = "source" -> src
              [] f = "jumpUrl" -> ju
              [] OTHER -> id] :
          t \in TextValues, st \in TextValues, it \in TypeValues,
          src \in TextValues, ju \in TextValues, id \in IdValues}

InitValidate ==
    /\ val_kind \in ValidatorKinds
    /\ val_item \in ValItems
    /\ val_save_reasons = <<>>
    /\ val_reasons = <<>>
    /\ CmpIdle
    /\ PrbIdle
    /\ DqIdle
    /\ RpIdle
    /\ WkIdle

\* the call process_item_for_validation(item) of hascache.py
ProcessItemForValidation ==
    /\ val_kind = "hascache"
    /\ val_reasons = <<>>
    /\ val_save_reasons' = save_reasons(val_item)
    /\ val_reasons' = <<process_item_for_validation(val_item)>>
    /\ UNCHANGED <<val_kind, val_item>>
    /\ UNCHANGED not_val_vars

\* the call process_chunk(chunk) of ans_B.py
ProcessChunk ==
    /\ val_kind = "ans_B"
    /\ val_reasons = <<>>
    /\ val_save_reasons' = process_chunk_save_reasons(val_item)
    /\ val_reasons' = <<process_chunk(val_item)>>
    /\ UNCHANGED <<val_kind, val_item>>
    /\ UNCHANGED not_val_vars

NextValidate ==
    \/ ProcessItemForValidation
    \/ ProcessChunk

SpecValidate == InitValidate /\ [][NextValidate]_vars

ValDone == val_reasons # <<>>
ValOut == val_reasons[1]

----------------------------------------------------------------------------
(* Part 5: the reporting drivers                                           *)
(*   hascache.py:85-357                  read_existing_coverage_data,      *)
(*                                       write_final_coverage_report, main *)
(*   ans_B.py:75-153                     process_query, main               *)
(*   B_informationtype_cover.py:20-139   read_existing_results,            *)
(*                                       write_totals_to_csv,              *)
(*                                       process_queries_incrementally     *)

ReportKinds == {"hascache", "ans_B", "B_cover"}

\* CONFIG (hascache.py:13-22): the endpoint keys in insertion order and their
\* names (the names are written here in English)
CONFIG_KEYS == <<"B", "C">>
CONFIG_NAME == [B |-> "InterfaceB", C |-> "InterfaceC"]

\* the cache statuses a response is counted under (hascache.py:89-92)
STATUS_KEYS == <<"cache_hit", "cache_miss", "no_cache_info">>
\* the last part of the column name of each status (hascache.py:182-184)
STATUS_PART ==
    [cache_hit |-> "CacheHit", cache_miss |-> "CacheMiss",
     no_cache_info |-> "NoCacheInfo"]

\* collections.Counter: a function from the keys it holds to their counts
EmptyCounter == [t \in {} |-> 0]

\* counter.get(key, 0)
count_of(counter, key) == IF key \in DOMAIN counter THEN counter[key] ELSE 0

\* counter.update(other): adds the counts of other key by key
counter_update(counter, other) ==
    [t \in DOMAIN counter \cup DOMAIN other |->
        count_of(counter, t) + count_of(other, t)]

\* Counter(iterable) for the sequence of keys
RECURSIVE counter_of(_)
counter_of(keys) ==
    IF keys = <<>> THEN EmptyCounter
    ELSE counter_update(counter_of(Tail(keys)), [t \in {Head(keys)} |-> 1])

\* sorted(...) of a set of type names: the names in the order Python's string
\* comparison gives them
SORTED_NAMES ==
    <<"BOND", "CFH", "HOT_NEWS", "INTERACTION", "INV_NEWS", "LAW", "N/A",
      "NEWS", "NOTICE", "OTHER", "REPORT", "WECHAT">>
sorted(names) == SelectSeq(SORTED_NAMES, LAMBDA name : name \in names)

\* str(n) as csv.writer writes a count
str(n) == ToString(n)

\* int(text): the digits of a decimal numeral, most significant first
DIGITS == <<"0", "1", "2", "3", "4", "5", "6", "7", "8", "9">>
digit_value(c) == (CHOOSE d \in DOMAIN DIGITS : DIGITS[d] = c) - 1

\* int(text) raises ValueError: text is not a plain decimal numeral (signs,
\* blanks and underscores, which int() also takes, are in no file here)
int_raises(text) ==
    \/ Len(text) = 0
    \/ \E i \in 1..Len(text) : SubSeq(text, i, i) \notin Range(DIGITS)

RECURSIVE int(_)
int(text) ==
    IF Len(text) = 1 THEN digit_value(text)
    ELSE 10 * int(SubSeq(text, 1, Len(text) - 1))
            + digit_value(SubSeq(text, Len(text), Len(text)))

\* field.split('_') from the i-th character on, cur being the part begun
RECURSIVE split_from(_, _, _)
split_from(field, i, cur) ==
    IF i > Len(field) THEN <<cur>>
    ELSE IF SubSeq(field, i, i) = "_"
        THEN <<cur>> \o split_from(field, i + 1, "")
        ELSE split_from(field, i + 1, cur \o SubSeq(field, i, i))

\* The counter table of hascache.py:89-92 with every Counter empty
ZeroCounters ==
    [endpoint_key \in Range(CONFIG_KEYS) |->
        [status_key \in Range(STATUS_KEYS) |-> EmptyCounter]]

\* all_coverage_counters[endpoint_key][status_key].update(counter)
table_update_every_status(table, endpoint_key, status_key, counter) ==
    [table EXCEPT ![endpoint_key] =
        [k \in Range(STATUS_KEYS) |-> counter_update(@[k], counter)]]
table_update(table, endpoint_key, status_key, counter) ==
    [table EXCEPT ![endpoint_key][status_key] = counter_update(@, counter)]

\* the column name of one (endpoint, status) pair (hascache.py:182-184)
column_name(endpoint_key, status_key) ==
    "Count_" \o CONFIG_NAME[endpoint_key] \o "_" \o STATUS_PART[status_key]

\* the header row of the coverage report (hascache.py:180-185)
report_header ==
    <<"InformationType">>
    \o [k \in 1..(Len(CONFIG_KEYS) * Len(STATUS_KEYS)) |->
           column_name(CONFIG_KEYS[((k - 1) \div Len(STATUS_KEYS)) + 1],
                       STATUS_KEYS[((k - 1) % Len(STATUS_KEYS)) + 1])]

\* all_types (hascache.py:167-171)
all_types(table) ==
    sorted(UNION {DOMAIN table[endpoint_key][status_key] :
                     endpoint_key \in Range(CONFIG_KEYS),
                     status_key \in Range(STATUS_KEYS)})

\* the data row of one information type (hascache.py:189-194)
report_row_reversed(table, info_type) ==
    <<info_type>>
    \o [k \in 1..(Len(CONFIG_KEYS) * Len(STATUS_KEYS)) |->
           str(count_of(table[CONFIG_KEYS[Len(CONFIG_KEYS) - ((k - 1) \div Len(STATUS_KEYS))]]
                             [STATUS_KEYS[Len(STATUS_KEYS) - ((k - 1) % Len(STATUS_KEYS))]],
                        info_type))]
report_row(table, info_type) ==
    <<info_type>>
    \o [k \in 1..(Len(CONFIG_KEYS) * Len(STATUS_KEYS)) |->
           str(count_of(table[CONFIG_KEYS[((k - 1) \div Len(STATUS_KEYS)) + 1]]
                             [STATUS_KEYS[((k - 1) % Len(STATUS_KEYS)) + 1]],
                        info_type))]

\* write_final_coverage_report(all_coverage_counters, filepath): the file it
\* leaves (hascache.py:155-197)
write_final_coverage_report(table) ==
    File(<<report_header>>
         \o [k \in 1..Len(all_types(table)) |->
                report_row(table, all_types(table)[k])])

\* the entry of col_map for one field name, <<>> when the field gets none
\* (hascache.py:108-130)
col_map_entry(field) ==
    IF ~startswith(field, "Count_") THEN <<>>
    ELSE LET parts == split_from(field, 1, "")
             endpoint_keys == {k \in Range(CONFIG_KEYS) : CONFIG_NAME[k] = parts[2]}
             status_keys == {k \in Range(STATUS_KEYS) :
                                 STATUS_PART[k] = parts[Len(parts)]}
         IN  IF Len(parts) < 3 \/ endpoint_keys = {} \/ status_keys = {} THEN <<>>
             ELSE <<CHOOSE k \in endpoint_keys : TRUE,
                    CHOOSE k \in status_keys : TRUE>>

\* row.get('InformationType') of a DictReader row: None when the header has
\* no such column or the row is too short
row_info_type(header, row) ==
    LET cols == {i \in DOMAIN header : header[i] = "InformationType"}
    IN  IF cols = {} THEN None
        ELSE LET i == CHOOSE c \in cols : TRUE
             IN  IF i > Len(row) THEN None ELSE Str(row[i])

\* int(row.get(col_name, 0)) is handed None, a TypeError that only the outer
\* handler catches: the row has no cell for a counted column; col_map holds
\* the entry of every field of the header
row_raises(header, col_map, row) ==
    /\ row # <<>>
    /\ truthy(row_info_type(header, row))
    /\ \E i \in DOMAIN header : col_map[i] # <<>> /\ i > Len(row)

\* "for col_name, ... in col_map.items()" from the i-th field of the header
\* on (hascache.py:137-143); a count that is no number is skipped
RECURSIVE add_row_from(_, _, _, _, _)
add_row_from(table, header, col_map, row, i) ==
    IF i > Len(header) THEN table
    ELSE IF col_map[i] = <<>> \/ int_raises(row[i])
        THEN add_row_from(table, header, col_map, row, i + 1)
    ELSE add_row_from(
             [table EXCEPT ![col_map[i][1]][col_map[i][2]] =
                 counter_update(@,
                     [t \in {row_info_type(header, row).s} |-> int(row[i])])],
             header, col_map, row, i + 1)

\* "for row in reader" from the k-th row of the file on (hascache.py:132-143)
RECURSIVE add_rows_from(_, _, _, _)
add_rows_from(table, col_map, file_rows, k) ==
    IF k > Len(file_rows) THEN table
    ELSE IF file_rows[k] = <<>> \/ ~truthy(row_info_type(file_rows[1], file_rows[k]))
        THEN add_rows_from(table, col_map, file_rows, k + 1)
    ELSE add_rows_from(add_row_from(table, file_rows[1], col_map, file_rows[k], 1),
                       col_map, file_rows, k + 1)

\* read_existing_coverage_data(filepath) (hascache.py:85-152): col_map is
\* built once from the header, then the rows are added
read_existing_coverage_data_from_zero(file) == ZeroCounters
read_existing_coverage_data(file) ==
    IF ~file.exists \/ file.rows = <<>> THEN ZeroCounters
    ELSE IF file.rows[1] = <<>> THEN ZeroCounters
    ELSE LET rows_read == file.rows
             col_map == [i \in DOMAIN rows_read[1] |-> col_map_entry(rows_read[1][i])]
         IN  IF \E k \in 2..Len(rows_read) :
                    row_raises(rows_read[1], col_map, rows_read[k])
                 THEN ZeroCounters
                 ELSE add_rows_from(ZeroCounters, col_map, rows_read, 2)

\* write_totals_to_csv(filepath, counter): the file it leaves
\* (B_informationtype_cover.py:44-60)
write_totals_to_csv(counter) ==
    File(<<<<"InformationType", "Count">>>>
         \o (IF DOMAIN counter = {} THEN << <<"N/A", str(0)>> >>
             ELSE [k \in 1..Len(sorted(DOMAIN counter)) |->
                      <<sorted(DOMAIN counter)[k],
                        str(counter[sorted(DOMAIN counter)[k]])>>]))

\* the dict comprehension of read_existing_results raises IndexError or
\* ValueError (B_informationtype_cover.py:36)
read_existing_results_raises(file) ==
    \E k \in 2..Len(file.rows) :
        /\ file.rows[k] # <<>>
        /\ \/ Len(file.rows[k]) < 2
           \/ int_raises(file.rows[k][2])

\* read_existing_results(filepath) (B_informationtype_cover.py:20-42); of two
\* rows with the same type the later one stays
read_existing_results(file) ==
    IF ~file.exists THEN EmptyCounter
    ELSE IF read_existing_results_raises(file) THEN EmptyCounter
    ELSE LET data == {k \in 2..Len(file.rows) : file.rows[k] # <<>>}
             last(t) == CHOOSE k \in data :
                            /\ file.rows[k][1] = t
                            /\ \A j \in data : file.rows[j][1] = t => j <= k
         IN  [t \in {file.rows[k][1] : k \in data} |-> int(file.rows[last(t)][2])]

\* What an endpoint does with one request: error is the exception that
\* requests.post, raise_for_status or response.json() raises ("" when none
\* is raised); otherwise the body is a JSON object whose extraInfos.isCache is
\* "absent", "true", "false" or "null" and whose data is a list of records,
\* "absent", "null" or a non-empty string ("str")
Answer(error, is_cache, data_kind, data) ==
    [error |-> error, is_cache |-> is_cache, data_kind |-> data_kind, data |-> data]

\* a record of a response
Record(title, show_time, info_type, source, jump_url, id) ==
    [f \in ItemFields |->
        CASE f = "title" -> title
          [] f = "showTime" -> show_time
          [] f = "informationType" -> info_type
          [] f = "source" -> source
          [] f = "jumpUrl" -> jump_url
          [] OTHER -> id]

\* the answers the endpoints choose from
Answers ==
    LET GoodNews == Record(Str("v"), Str("v"), Str("NEWS"), Str("v"), Missing,
                           Str("NW123"))
        BadNews == Record(Str("v"), Str("v"), Str("NEWS"), Str("v"), Missing,
                          Str("AP123"))
        GoodCfh == Record(Str("v"), Str("v"), Str("CFH"), Str("v"), None,
                          Str("X1"))
        GoodReport == Record(Str("v"), Str("v"), Str("REPORT"), Missing, Missing,
                             Str("AP123"))
        NoType == Record(Str("v"), Str(""), Missing, Str("v"), Missing, Str("X1"))
    IN  <<Answer("Timeout", "absent", "absent", <<>>),
          Answer("", "true", "list", <<GoodNews, BadNews>>),
          Answer("", "false", "list", <<GoodCfh>>),
          Answer("", "absent", "list", <<NoType, GoodReport>>),
          Answer("", "true", "str", <<>>),
          Answer("", "null", "list", <<GoodNews>>),
          Answer("", "absent", "absent", <<>>),
          Answer("", "false", "null", <<>>),
          Answer("HTTPError", "absent", "absent", <<>>)>>

\* item.get(field, "")
get_or_empty(item, field) == IF item[field] = Missing THEN Str("") ELSE item[field]

\* isinstance(response_data, list) for response_json.get("data", [])
data_is_list(answer) == answer.data_kind \in {"list", "absent"}

\* response_json.get("data", []) when it is a list
response_data(answer) == IF answer.data_kind = "list" THEN answer.data ELSE <<>>

\* is_cache_present = "isCache" in extra_infos (hascache.py:258-259)
is_cache_present(answer) == answer.is_cache # "absent"

\* is_cache_value = extra_infos.get("isCache") (hascache.py:260), as the csv
\* writer renders it
is_cache_value(answer) ==
    IF answer.is_cache = "absent" THEN "None" ELSE answer.is_cache

\* the counter a call is added to (hascache.py:319-334)
status_key_of(answer) ==
    IF is_cache_present(answer)
        THEN IF answer.is_cache = "true" THEN "cache_hit" ELSE "cache_miss"
        ELSE "no_cache_info"

\* current_call_info_types: the informationType of every record that has a
\* truthy one (hascache.py:312-314, B_informationtype_cover.py:114)
RECURSIVE current_call_info_types(_)
current_call_info_types(data) ==
    IF data = <<>> THEN <<>>
    ELSE (IF truthy(get(Head(data), "informationType"))
             THEN <<get(Head(data), "informationType").s>>
             ELSE <<>>)
         \o current_call_info_types(Tail(data))

\* the row of a non-compliant record (hascache.py:293-308); the columns
\* currentQuery, originalQuery and process_time are left out
validation_row(api_name, item, query, answer, reasons) ==
    [endpoint |-> api_name,
     id |-> get_or_empty(item, "id"),
     title |-> get_or_empty(item, "title"),
     showTime |-> get_or_empty(item, "showTime"),
     source |-> get_or_empty(item, "source"),
     informationType |-> get_or_empty(item, "informationType"),
     jumpUrl |-> get_or_empty(item, "jumpUrl"),
     inputQuery |-> query,
     isCache_present |-> is_cache_present(answer),
     isCache_value |-> is_cache_value(answer),
     invalid_reasons |-> reasons]

\* a row without a record: DictWriter leaves the columns not given empty
bare_row(api_name, id, title, query, present, value, reasons) ==
    [endpoint |-> api_name, id |-> Str(id), title |-> Str(title),
     showTime |-> Str(""), source |-> Str(""), informationType |-> Str(""),
     jumpUrl |-> Str(""), inputQuery |-> query, isCache_present |-> present,
     isCache_value |-> value, invalid_reasons |-> reasons]

\* the row for a response whose data is not a list (hascache.py:277-284)
not_a_list_row(api_name, query, answer) ==
    bare_row(api_name, "", "", query, is_cache_present(answer),
             is_cache_value(answer), "the 'data' field of the response is not a list")

\* the row of the except branch (hascache.py:339-348)
request_failed_row(api_name, query, error) ==
    bare_row(api_name, "ERROR", "ERROR", query, FALSE, "None",
             "request failed: " \o error)

\* "for item in response_data" from the k-th record on: the rows it writes
\* (hascache.py:289-309)
RECURSIVE validation_rows(_, _, _, _)
validation_rows_for_every_item(api_name, query, answer, k) ==
    IF k > Len(response_data(answer)) THEN <<>>
    ELSE <<validation_row(api_name, response_data(answer)[k], query, answer,
                          join("; ", save_reasons(response_data(answer)[k])))>>
         \o validation_rows(api_name, query, answer, k + 1)
validation_rows(api_name, query, answer, k) ==
    IF k > Len(response_data(answer)) THEN <<>>
    ELSE (IF truthy(process_item_for_validation(response_data(answer)[k]))
             THEN <<validation_row(api_name, response_data(answer)[k], query, answer,
                        process_item_for_validation(response_data(answer)[k]).s)>>
             ELSE <<>>)
         \o validation_rows(api_name, query, answer, k + 1)

\* the rows process_query of ans_B.py writes for a record or for a failure
\* (ans_B.py:96-108 and 115-127); process_time is left out
ans_B_row(id, title, show_time, source, info_type, jump_url, query, reasons) ==
    [id |-> id, title |-> title, showTime |-> show_time, source |-> source,
     informationType |-> info_type, jumpUrl |-> jump_url, inputQuery |-> query,
     invalid_reasons |-> reasons]

ans_B_error_row(query, error) ==
    ans_B_row(Str("ERROR"), Str("ERROR"), Str(""), Str(""), Str(""), Str(""),
              query, "request failed: " \o error)

\* 'for item in data.get("data", [])' from the k-th record on (ans_B.py:92-110)
RECURSIVE ans_B_item_rows(_, _, _)
ans_B_item_rows(query, data, k) ==
    IF k > Len(data) THEN <<>>
    ELSE (IF truthy(process_chunk(data[k]))
             THEN <<ans_B_row(get_or_empty(data[k], "id"),
                              get_or_empty(data[k], "title"),
                              get_or_empty(data[k], "showTime"),
                              get_or_empty(data[k], "source"),
                              get_or_empty(data[k], "informationType"),
                              get_or_empty(data[k], "jumpUrl"),
                              query, process_chunk(data[k]).s)>>
             ELSE <<>>)
         \o ans_B_item_rows(query, data, k + 1)

\* process_query(query, csv_writer) of ans_B.py:75-128: the rows it writes.
\* Iterating over None raises TypeError and a record of a string is a
\* character without .get (AttributeError); both end in the except branch.
ans_B_process_query(query, answer) ==
    IF answer.error # "" THEN <<ans_B_error_row(query, answer.error)>>
    ELSE IF answer.data_kind = "null" THEN <<ans_B_error_row(query, "TypeError")>>
    ELSE IF answer.data_kind = "str" THEN <<ans_B_error_row(query, "AttributeError")>>
    ELSE ans_B_item_rows(query, response_data(answer), 1)

\* The input files: the stripped non-empty lines of the query file, and the
\* coverage file found at the first start
QUERY_FILE == <<"q1", "q2">>
InitialFiles == {NoFile, File(<<>>)}

\* requests per query: both endpoints for hascache, one otherwise
calls_per_query(kind) == IF kind = "hascache" THEN Len(CONFIG_KEYS) ELSE 1

InitReport ==
    /\ rp_kind \in ReportKinds
    /\ rp_pc = "start"
    /\ rp_run = 1
    /\ rp_queries \in {SubSeq(QUERY_FILE, 1, n) : n \in 0..Len(QUERY_FILE)}
    /\ rp_answers \in [1..Len(rp_queries) ->
                          [1..calls_per_query(rp_kind) -> 1..NumAnswers]]
    /\ rp_q = 0
    /\ rp_e = 0
    /\ rp_rows = <<>>
    /\ rp_counters = <<>>
    /\ rp_file \in InitialFiles
    /\ rp_first = <<>>
    /\ rp_writable = TRUE
    /\ CmpIdle
    /\ PrbIdle
    /\ DqIdle
    /\ ValIdle
    /\ WkIdle

\* main of hascache.py up to its loop (lines 207-234): without queries it
\* returns at once; otherwise it loads the counters and truncates the
\* validation file, and nothing catches the exception of an open that fails
HasCacheStart ==
    /\ rp_kind = "hascache"
    /\ rp_pc = "start"
    /\ IF rp_queries = <<>>
          THEN /\ rp_pc' = "done"
               /\ UNCHANGED <<rp_counters, rp_rows>>
          ELSE /\ rp_counters' = read_existing_coverage_data(rp_file)
               /\ IF rp_writable
                     THEN rp_pc' = "loop" /\ rp_rows' = <<>>
                     ELSE rp_pc' = "crashed_open" /\ UNCHANGED rp_rows
    /\ UNCHANGED <<rp_kind, rp_run, rp_queries, rp_answers, rp_q, rp_e,
                   rp_file, rp_first, rp_writable>>
    /\ UNCHANGED not_rp_vars

\* one pass of "for endpoint_key, endpoint_info in CONFIG.items()" of
\* hascache.py (lines 242-348): the request, the rows and the counters. A
\* writerow that raises inside the try (lines 284, 308) is caught at line
\* 336, whose handler calls writerow again (line 339) outside any try: with
\* the file still not writable that exception leaves main.
HasCacheCall ==
    /\ rp_kind = "hascache"
    /\ rp_pc = "loop"
    /\ LET query == rp_queries[rp_q + 1]
           endpoint_key == CONFIG_KEYS[rp_e + 1]
           api_name == CONFIG_NAME[endpoint_key]
           answer == Answers[rp_answers[rp_q + 1][rp_e + 1]]
           last_endpoint == rp_e + 1 = Len(CONFIG_KEYS)
           new_rows ==
               IF answer.error # ""
                   THEN <<request_failed_row(api_name, query, answer.error)>>
               ELSE IF ~data_is_list(answer)
                   THEN <<not_a_list_row(api_name, query, answer)>>
               ELSE validation_rows(api_name, query, answer, 1)
       IN  IF ~rp_writable /\ new_rows # <<>>
              THEN /\ rp_pc' = "crashed_row"
                   /\ UNCHANGED <<rp_rows, rp_counters, rp_e, rp_q>>
              ELSE /\ rp_rows' = rp_rows \o new_rows
                   /\ rp_counters' =
                          IF answer.error = "" /\ data_is_list(answer)
                          THEN table_update(rp_counters, endpoint_key,
                                   status_key_of(answer),
                                   counter_of(current_call_info_types(
                                                  response_data(answer))))
                          ELSE rp_counters
                   /\ rp_e' = IF last_endpoint THEN 0 ELSE rp_e + 1
                   /\ rp_q' = IF last_endpoint THEN rp_q + 1 ELSE rp_q
                   /\ rp_pc' = IF last_endpoint /\ rp_q + 1 = Len(rp_queries)
                                  THEN "report" ELSE "loop"
    /\ UNCHANGED <<rp_kind, rp_run, rp_queries, rp_answers, rp_file, rp_first,
                   rp_writable>>
    /\ UNCHANGED not_rp_vars

\* the end of main of hascache.py (line 352): the coverage report is
\* written; an IOError is printed (lines 195-196) and leaves the file as it
\* was or, when open has truncated it already, empty
HasCacheReport ==
    /\ rp_kind = "hascache"
    /\ rp_pc = "report"
    /\ IF rp_writable
          THEN rp_file' = write_final_coverage_report(rp_counters)
          ELSE rp_file' \in {rp_file, File(<<>>)}
    /\ rp_pc' = "done"
    /\ UNCHANGED <<rp_kind, rp_run, rp_queries, rp_answers, rp_q, rp_e,
                   rp_rows, rp_counters, rp_first, rp_writable>>
    /\ UNCHANGED not_rp_vars

\* main of ans_B.py up to its loop (lines 132-143): the result file is
\* truncated and gets its header; nothing catches the exception of an open
\* that fails
AnsBStart ==
    /\ rp_kind = "ans_B"
    /\ rp_pc = "start"
    /\ IF rp_writable
          THEN /\ rp_rows' = <<>>
               /\ rp_pc' = IF rp_queries = <<>> THEN "done" ELSE "loop"
          ELSE /\ rp_pc' = "crashed_open"
               /\ UNCHANGED rp_rows
    /\ UNCHANGED <<rp_kind, rp_run, rp_queries, rp_answers, rp_q, rp_e,
                   rp_counters, rp_file, rp_first, rp_writable>>
    /\ UNCHANGED not_rp_vars

\* one pass of "for query in queries" of ans_B.py (lines 146-151). A
\* writerow that raises at line 109 is caught at line 112, whose handler
\* calls writerow again (line 128): that exception leaves process_query and
\* main.
AnsBProcessQuery ==
    /\ rp_kind = "ans_B"
    /\ rp_pc = "loop"
    /\ LET new_rows == ans_B_process_query(rp_queries[rp_q + 1],
                                           Answers[rp_answers[rp_q + 1][1]])
       IN  IF ~rp_writable /\ new_rows # <<>>
              THEN /\ rp_pc' = "crashed_row"
                   /\ UNCHANGED <<rp_rows, rp_q>>
              ELSE /\ rp_rows' = rp_rows \o new_rows
                   /\ rp_q' = rp_q + 1
                   /\ rp_pc' = IF rp_q + 1 = Len(rp_queries) THEN "done" ELSE "loop"
    /\ UNCHANGED <<rp_kind, rp_run, rp_queries, rp_answers, rp_e,
                   rp_counters, rp_file, rp_first, rp_writable>>
    /\ UNCHANGED not_rp_vars

\* process_queries_incrementally up to its loop
\* (B_informationtype_cover.py:69-83): the totals are loaded
CoverStart ==
    /\ rp_kind = "B_cover"
    /\ rp_pc = "start"
    /\ rp_counters' = read_existing_results(rp_file)
    /\ rp_pc' = IF rp_queries = <<>> THEN "done" ELSE "loop"
    /\ UNCHANGED <<rp_kind, rp_run, rp_queries, rp_answers, rp_q, rp_e,
                   rp_rows, rp_file, rp_first, rp_writable>>
    /\ UNCHANGED not_rp_vars

\* one pass of "for i, row in enumerate(queries)"
\* (B_informationtype_cover.py:86-136): a failed request and a response
\* without a list are logged; a response without any type changes nothing;
\* otherwise the totals are updated and the file is rewritten. An IOError of
\* write_totals_to_csv is printed (lines 59-60) and leaves the file as it
\* was or, when open has truncated it already, empty.
CoverProcessQuery ==
    /\ rp_kind = "B_cover"
    /\ rp_pc = "loop"
    /\ LET answer == Answers[rp_answers[rp_q + 1][1]]
           current_call_counter ==
               counter_of(current_call_info_types(response_data(answer)))
       IN  IF answer.error # "" \/ ~data_is_list(answer)
                 \/ DOMAIN current_call_counter = {}
              THEN UNCHANGED <<rp_counters, rp_file>>
              ELSE /\ rp_counters' = counter_update(rp_counters, current_call_counter)
                   /\ IF rp_writable
                         THEN rp_file' = write_totals_to_csv(
                                  counter_update(rp_counters, current_call_counter))
                         ELSE rp_file' \in {rp_file, File(<<>>)}
    /\ rp_q' = rp_q + 1
    /\ rp_pc' = IF rp_q + 1 = Len(rp_queries) THEN "done" ELSE "loop"
    /\ UNCHANGED <<rp_kind, rp_run, rp_queries, rp_answers, rp_e, rp_rows, rp_first,
                   rp_writable>>
    /\ UNCHANGED not_rp_vars

\* the program is started a second time on the same input, the endpoints
\* answering as before, with the files the first run left
RunAgain ==
    /\ rp_pc = "done"
    /\ rp_run = 1
    /\ rp_run' = 2
    /\ rp_pc' = "start"
    /\ rp_q' = 0
    /\ rp_e' = 0
    /\ rp_first' = <<rp_counters>>
    /\ UNCHANGED <<rp_kind, rp_queries, rp_answers, rp_rows, rp_counters, rp_file,
                   rp_writable>>
    /\ UNCHANGED not_rp_vars

\* The output files stop being writable while a driver runs (the disk
\* fills up, the directory is taken away): from then on open(..., "w") and
\* writerow raise OSError
OutputFails ==
    /\ rp_writable
    /\ rp_pc \in {"start", "loop", "report"}
    /\ rp_writable' = FALSE
    /\ UNCHANGED <<rp_kind, rp_pc, rp_run, rp_queries, rp_answers, rp_q, rp_e,
                   rp_rows, rp_counters, rp_file, rp_first>>
    /\ UNCHANGED not_rp_vars

NextReport ==
    \/ HasCacheStart
    \/ HasCacheCall
    \/ HasCacheReport
    \/ AnsBStart
    \/ AnsBProcessQuery
    \/ CoverStart
    \/ CoverProcessQuery
    \/ RunAgain
    \/ OutputFails

SpecReport == InitReport /\ [][NextReport]_vars

\* The coverage files an aggregator may find at its start when the file is
\* not one it wrote whole: under the header the writer writes, or a header
\* with one column renamed, up to two data rows that are well formed, hold
\* a count that is no number, or stop short
SnapshotFiles(kind) ==
    LET headers ==
            IF kind = "hascache"
                THEN {report_header,
                      [report_header EXCEPT ![2] = "Hits"],
                      [report_header EXCEPT ![1] = "Type"]}
                ELSE {<<"InformationType", "Count">>, <<"Type">>}
        data_rows ==
            IF kind = "hascache"
                THEN {<<"NEWS", "2", "0", "0", "1", "0", "0">>,
                      <<"CFH", "x", "3", "0", "0", "0", "0">>,
                      <<"LAW", "1">>}
                ELSE {<<"NEWS", "2">>, <<"CFH", "x">>, <<"LAW">>}
    IN  {File(<<header>> \o body) :
            header \in headers, body \in BoundedSeq(data_rows, 2)}

\* hascache.py or B_informationtype_cover.py is started on one query with
\* such a coverage file in place
InitLoad ==
    /\ rp_kind \in {"hascache", "B_cover"}
    /\ rp_pc = "start"
    /\ rp_run = 1
    /\ rp_queries = <<"q1">>
    /\ rp_answers \in [1..Len(rp_queries) ->
                          [1..calls_per_query(rp_kind) -> {2, 3}]]
    /\ rp_q = 0
    /\ rp_e = 0
    /\ rp_rows = <<>>
    /\ rp_counters = <<>>
    /\ rp_file \in SnapshotFiles(rp_kind)
    /\ rp_first = <<>>
    /\ rp_writable = TRUE
    /\ CmpIdle
    /\ PrbIdle
    /\ DqIdle
    /\ ValIdle
    /\ WkIdle

NextLoad ==
    \/ HasCacheStart
    \/ HasCacheCall
    \/ HasCacheReport
    \/ CoverStart
    \/ CoverProcessQuery

SpecLoad == InitLoad /\ [][NextLoad]_vars

----------------------------------------------------------------------------
(* Part 6: the worker pool of cachecheck.py, lines 13-108 and 156-178 *)

\* "with threading.Lock():" (line 161) makes a new lock on every pass, so it
\* excludes no other worker and next(query_iterator) runs unprotected: with
\* the global interpreter lock the call is one step; on an interpreter
\* without it, reading the iterator's index and storing the advanced index
\* are two steps that other workers interleave.

\* column_names (line 139)
column_names == <<"Query", "TraceId", "CacheTraceId", "IsCache", "DecomposedQueries">>

\* row_data (lines 90-96); the cells taken from the response are left out
row_data(query) == <<query>>

\* Threads are started (lines 156-175): the input is loaded, the output file
\* has its header and every worker is about to take its first entry. An
\* entry is given by its query_data.get("query"): a text, or None when the
\* entry has no such key.
InitPool ==
    /\ wk_build \in {"gil", "free_threaded"}
    /\ wk_writable \in BOOLEAN
    /\ wk_queries_data \in BoundedSeq({Str("q1"), None}, MaxEntries)
    /\ wk_index = 0
    /\ wk_pc = [w \in Workers |-> "take"]
    /\ wk_loaded = [w \in Workers |-> 0]
    /\ wk_item = [w \in Workers |-> 0]
    /\ wk_lock = {}
    /\ wk_file = <<column_names>>
    /\ wk_taken = [i \in DOMAIN wk_queries_data |-> 0]
    /\ CmpIdle
    /\ PrbIdle
    /\ DqIdle
    /\ ValIdle
    /\ RpIdle

\* Worker w has been handed entry i: process_query starts and returns at
\* once when the entry has no query (lines 30-33)
Handed(w, i) ==
    /\ wk_taken' = [wk_taken EXCEPT ![i] = @ + 1]
    /\ IF truthy(wk_queries_data[i])
          THEN /\ wk_pc' = [wk_pc EXCEPT ![w] = "probe"]
               /\ wk_item' = [wk_item EXCEPT ![w] = i]
          ELSE /\ wk_pc' = [wk_pc EXCEPT ![w] = "take"]
               /\ wk_item' = [wk_item EXCEPT ![w] = 0]

\* next(query_iterator) under the global interpreter lock (lines 160-164)
TakeNext(w) ==
    /\ wk_build = "gil"
    /\ wk_pc[w] = "take"
    /\ IF wk_index < Len(wk_queries_data)
          THEN /\ wk_index' = wk_index + 1
               /\ Handed(w, wk_index + 1)
          ELSE /\ wk_pc' = [wk_pc EXCEPT ![w] = "finished"]
               /\ UNCHANGED <<wk_index, wk_item, wk_taken>>
    /\ UNCHANGED <<wk_build, wk_writable, wk_queries_data, wk_loaded, wk_lock,
                   wk_file>>
    /\ UNCHANGED not_wk_vars

\* next(query_iterator) without the global interpreter lock, first half:
\* the iterator's index is read
LoadIndex(w) ==
    /\ wk_build = "free_threaded"
    /\ wk_pc[w] = "take"
    /\ wk_loaded' = [wk_loaded EXCEPT ![w] = wk_index]
    /\ wk_pc' = [wk_pc EXCEPT ![w] = "advance"]
    /\ UNCHANGED <<wk_build, wk_writable, wk_queries_data, wk_index, wk_item,
                   wk_lock, wk_file, wk_taken>>
    /\ UNCHANGED not_wk_vars

\* second half: the entry at the index read is returned and the index read
\* plus one is stored, or StopIteration ends the worker
StoreIndex(w) ==
    /\ wk_pc[w] = "advance"
    /\ IF wk_loaded[w] < Len(wk_queries_data)
          THEN /\ wk_index' = wk_loaded[w] + 1
               /\ Handed(w, wk_loaded[w] + 1)
          ELSE /\ wk_pc' = [wk_pc EXCEPT ![w] = "finished"]
               /\ UNCHANGED <<wk_index, wk_item, wk_taken>>
    /\ wk_loaded' = [wk_loaded EXCEPT ![w] = 0]
    /\ UNCHANGED <<wk_build, wk_writable, wk_queries_data, wk_lock, wk_file>>
    /\ UNCHANGED not_wk_vars

\* one pass of "while response_json is None" (lines 40-68) and, once a
\* response is there, the lines up to "with file_lock" (70-96). The request
\* ends in an exception, in a body null (response_json stays None), in a JSON
\* object, or in JSON of another type, on which response_json.get raises
\* outside any handler and ends the thread.
Attempt(w) ==
    /\ wk_pc[w] = "probe"
    /\ \E outcome \in {"error", "null", "object", "not_object"} :
           wk_pc' = [wk_pc EXCEPT ![w] =
                        CASE outcome = "error" -> "sleep"
                          [] outcome = "null" -> "probe"
                          [] outcome = "object" -> "lock"
                          [] OTHER -> "died"]
    /\ UNCHANGED <<wk_build, wk_writable, wk_queries_data, wk_index, wk_loaded,
                   wk_item, wk_lock, wk_file, wk_taken>>
    /\ UNCHANGED not_wk_vars

\* time.sleep(retry_delay_seconds) is over (lines 55-68)
Wake(w) ==
    /\ wk_pc[w] = "sleep"
    /\ wk_pc' = [wk_pc EXCEPT ![w] = "probe"]
    /\ UNCHANGED <<wk_build, wk_writable, wk_queries_data, wk_index, wk_loaded,
                   wk_item, wk_lock, wk_file, wk_taken>>
    /\ UNCHANGED not_wk_vars

\* "with file_lock:" is entered (line 99)
AcquireFileLock_unguarded(w) ==
    /\ wk_pc[w] = "lock"
    /\ wk_lock' = wk_lock \cup {w}
    /\ wk_pc' = [wk_pc EXCEPT ![w] = "write"]
    /\ UNCHANGED <<wk_build, wk_writable, wk_queries_data, wk_index, wk_loaded,
                   wk_item, wk_file, wk_taken>>
    /\ UNCHANGED not_wk_vars
AcquireFileLock(w) ==
    /\ wk_pc[w] = "lock"
    /\ wk_lock = {}
    /\ wk_lock' = {w}
    /\ wk_pc' = [wk_pc EXCEPT ![w] = "write"]
    /\ UNCHANGED <<wk_build, wk_writable, wk_queries_data, wk_index, wk_loaded,
                   wk_item, wk_file, wk_taken>>
    /\ UNCHANGED not_wk_vars

\* the body of "with file_lock:" (lines 100-108): the row is appended, or the
\* failure to do so is printed; the lock is released and process_query returns
WriteRow_keeps_lock(w) ==
    /\ wk_pc[w] = "write"
    /\ wk_file' = IF wk_writable
                     THEN Append(wk_file, row_data(wk_queries_data[wk_item[w]].s))
                     ELSE wk_file
    /\ wk_pc' = [wk_pc EXCEPT ![w] = "take"]
    /\ wk_item' = [wk_item EXCEPT ![w] = 0]
    /\ UNCHANGED <<wk_build, wk_writable, wk_queries_data, wk_index, wk_loaded,
                   wk_lock, wk_taken>>
    /\ UNCHANGED not_wk_vars
WriteRow(w) ==
    /\ wk_pc[w] = "write"
    /\ wk_file' = IF wk_writable
                     THEN Append(wk_file, row_data(wk_queries_data[wk_item[w]].s))
                     ELSE wk_file
    /\ wk_lock' = wk_lock \ {w}
    /\ wk_pc' = [wk_pc EXCEPT ![w] = "take"]
    /\ wk_item' = [wk_item EXCEPT ![w] = 0]
    /\ UNCHANGED <<wk_build, wk_writable, wk_queries_data, wk_index, wk_loaded,
                   wk_taken>>
    /\ UNCHANGED not_wk_vars

NextPool ==
    \E w \in Workers :
        \/ TakeNext(w)
        \/ LoadIndex(w)
        \/ StoreIndex(w)
        \/ Attempt(w)
        \/ Wake(w)
        \/ AcquireFileLock(w)
        \/ WriteRow(w)

SpecPool == InitPool /\ [][NextPool]_vars

\* The pool under fair scheduling: the three threads are started and joined
\* (lines 172-178), so each worker that can take a step keeps being scheduled
\* (weak fairness of its steps); and a query's probe, repeated without bound
\* by "while response_json is None", is taken to come back with a JSON
\* object at some attempt (strong fairness of that outcome, the attempts
\* being interrupted by the sleeps between them).
SpecPoolFair ==
    /\ InitPool
    /\ [][NextPool]_vars
    /\ \A w \in Workers :
           /\ WF_vars(\/ TakeNext(w)
                      \/ LoadIndex(w)
                      \/ StoreIndex(w)
                      \/ Attempt(w)
                      \/ Wake(w)
                      \/ AcquireFileLock(w)
                      \/ WriteRow(w))
           /\ SF_vars(Attempt(w) /\ wk_pc'[w] = "lock")

----------------------------------------------------------------------------
(* Claims about compare_results, checked under SpecCompare *)

\* C1: the report's total_diff_count is |only_in_old| + |only_in_new| + the
\* number of entries of order_changed, for every pair of id sequences.
TotalDiffCountIsSumOfParts ==
    CmpDone =>
        CmpOut.total_diff_count =
            Cardinality(CmpOut.only_in_old) + Cardinality(CmpOut.only_in_new)
                + Len(CmpOut.order_changed)

\* C1 witness: a report with a positional and a padded order-change entry.
TotalDiffCountWitness ==
    /\ CmpDone
    /\ Len(cmp_old_ids) # Len(cmp_new_ids)
    /\ Len(CmpOut.order_changed) >= 2
    /\ CmpOut.order_changed[1].position < Min(Len(cmp_old_ids), Len(cmp_new_ids))

\* C2: when the id sets differ no order difference is computed: order_changed
\* is empty, order_diff is false, and total_diff_count is
\* |set(A) - set(B)| + |set(B) - set(A)|.
SetMismatchSkipsOrder ==
    (CmpDone /\ Range(cmp_old_ids) # Range(cmp_new_ids)) =>
        /\ CmpOut.order_changed = <<>>
        /\ CmpOut.order_diff = FALSE
        /\ CmpOut.total_diff_count =
              Cardinality(Range(cmp_old_ids) \ Range(cmp_new_ids))
                  + Cardinality(Range(cmp_new_ids) \ Range(cmp_old_ids))

\* C2 witness: the sets differ and a position both sequences have mismatches.
SetMismatchWitness ==
    /\ CmpDone
    /\ Range(cmp_old_ids) # Range(cmp_new_ids)
    /\ Len(cmp_old_ids) # Len(cmp_new_ids)
    /\ \E i \in DOMAIN cmp_old_ids \cap DOMAIN cmp_new_ids :
          cmp_old_ids[i] # cmp_new_ids[i]
    /\ CmpOut.total_diff_count > 0

\* C3: identical sequences give total_diff_count = 0, set_diff = false and
\* order_diff = false.
IdenticalSequencesNoDiff ==
    (CmpDone /\ cmp_old_ids = cmp_new_ids) =>
        /\ CmpOut.total_diff_count = 0
        /\ CmpOut.set_diff = FALSE
        /\ CmpOut.order_diff = FALSE

\* C3 witness: a compared pair of identical sequences of full length.
IdenticalSequencesWitness ==
    /\ CmpDone
    /\ cmp_old_ids = cmp_new_ids
    /\ Len(cmp_old_ids) = MaxLen
    /\ CmpOut.total_diff_count = 0

\* the 1-based indexes at which two sequences of the same length differ
MismatchIndexes(A, B) == {i \in DOMAIN A \cap DOMAIN B : A[i] # B[i]}

\* C4: for equal-length sequences over the same id set, order_changed lists,
\* in ascending position, exactly (i, A[i], B[i]) for the 0-based positions i
\* with A[i] # B[i]; order_diff holds iff the list is non-empty, and
\* total_diff_count is its length.
OrderChangedIsExactlyTheMismatches ==
    (/\ CmpDone
     /\ Len(cmp_old_ids) = Len(cmp_new_ids)
     /\ Range(cmp_old_ids) = Range(cmp_new_ids)) =>
        LET oc == CmpOut.order_changed
            D  == MismatchIndexes(cmp_old_ids, cmp_new_ids)
        IN  /\ Len(oc) = Cardinality(D)
            /\ \A j \in DOMAIN oc :
                  /\ oc[j].position + 1 \in D
                  /\ oc[j].old_id = cmp_old_ids[oc[j].position + 1]
                  /\ oc[j].new_id = cmp_new_ids[oc[j].position + 1]
            /\ \A j, k \in DOMAIN oc : j < k => oc[j].position < oc[k].position
            /\ CmpOut.order_diff = (Len(oc) > 0)
            /\ CmpOut.total_diff_count = Len(oc)

\* C4 witness: A = [x,y,z], B = [x,z,y] gives [(1,y,z),(2,z,y)] and total 2.
OrderChangedWitness ==
    /\ CmpDone
    /\ cmp_old_ids = <<"x", "y", "z">>
    /\ cmp_new_ids = <<"x", "z", "y">>
    /\ CmpOut.order_changed = <<OrderEntry(1, "y", "z"), OrderEntry(2, "z", "y")>>
    /\ CmpOut.order_diff = TRUE
    /\ CmpOut.total_diff_count = 2

\* C5: for sequences over the same id set with different lengths, every
\* position from the shorter length to the longer length minus one has one
\* order-change entry, whose id on the shorter side is the empty string and
\* whose id on the longer side is the id at that position; order_diff is
\* true; and the difference count is the number of mismatching common
\* positions plus the absolute length difference, counted once.
LengthMismatchIsPadded ==
    (/\ CmpDone
     /\ Range(cmp_old_ids) = Range(cmp_new_ids)
     /\ Len(cmp_old_ids) # Len(cmp_new_ids)) =>
        LET oc    == CmpOut.order_changed
            short == Min(Len(cmp_old_ids), Len(cmp_new_ids))
            long  == Max(Len(cmp_old_ids), Len(cmp_new_ids))
        IN  /\ \A p \in short..(long - 1) :
                  /\ Cardinality({j \in DOMAIN oc : oc[j].position = p}) = 1
                  /\ \A j \in DOMAIN oc : oc[j].position = p =>
                        IF Len(cmp_old_ids) < Len(cmp_new_ids)
                        THEN oc[j].old_id = "" /\ oc[j].new_id = cmp_new_ids[p + 1]
                        ELSE oc[j].new_id = "" /\ oc[j].old_id = cmp_old_ids[p + 1]
            /\ CmpOut.order_diff = TRUE
            /\ CmpOut.total_diff_count =
                  Cardinality(MismatchIndexes(cmp_old_ids, cmp_new_ids))
                      + (long - short)

\* C5 witness: old = [x,y], new = [y,x,x]: two mismatches and one padded entry.
LengthMismatchWitness ==
    /\ CmpDone
    /\ cmp_old_ids = <<"x", "y">>
    /\ cmp_new_ids = <<"y", "x", "x">>
    /\ CmpOut.total_diff_count = 3
    /\ CmpOut.order_changed[3] = OrderEntry(2, "", "x")

----------------------------------------------------------------------------
(* Claims about the probers, checked under SpecProbe *)

\* the prober has answered its last attempt (it is not in the middle of one)
\* and that attempt raised nothing
PrbLastSucceeded == prb_outcomes # <<>> /\ PrbLast \in Bodies

\* C9: the prober returns only after an attempt succeeds; on an endpoint that
\* fails N times and then succeeds it returns that attempt's result on
\* attempt N+1 with exactly N failures logged; while every attempt has failed
\* it has not returned.
ProbeReturnsOnFirstSuccess ==
    /\ PrbReturned =>
          /\ PrbLastSucceeded
          /\ prb_result = <<[response |-> PrbLast, traceid |-> prb_traceid]>>
    /\ PrbLastSucceeded =>
          /\ PrbReturned
          /\ \A i \in 1..(Len(prb_outcomes) - 1) : prb_outcomes[i] \in Errors
          /\ Len(prb_log) = Len(prb_outcomes) - 1
    /\ (\A i \in DOMAIN prb_outcomes : prb_outcomes[i] \in Errors) =>
          /\ ~PrbReturned
          /\ Len(prb_log) = Len(prb_outcomes)

\* C9, the two loops it holds of: the same statement for the retry loops of
\* search_C.py and Information_Coverage.py.
ProbeReturnsOnFirstSuccessWhileTrue ==
    prb_kind \in {"search_C", "information_coverage"} => ProbeReturnsOnFirstSuccess

\* C10: no two attempts of one call carry the same correlation id, and the id
\* returned is the id of the attempt that succeeded.
FreshTraceIdEveryAttempt ==
    prb_kind \in {"search_C", "information_coverage"} =>
        /\ \A i, j \in DOMAIN prb_sent : i # j => prb_sent[i] # prb_sent[j]
        /\ PrbReturned => prb_result[1].traceid = prb_sent[Len(prb_sent)]

\* C10, the loop it holds of: the same statement for search_C.py alone.
FreshTraceIdEveryAttemptSearchC ==
    prb_kind = "search_C" =>
        /\ \A i, j \in DOMAIN prb_sent : i # j => prb_sent[i] # prb_sent[j]
        /\ PrbReturned => prb_result[1].traceid = prb_sent[Len(prb_sent)]

----------------------------------------------------------------------------
(* Claims about process_question and main, checked under SpecDiff *)

\* total_diff_count of the i-th old sample against the j-th new sample
TotalOf(i, j) ==
    compare_results(old_results[i].ids, new_results[j].ids).total_diff_count

\* the sample number a source name stands for
SourceIndex(names, source) == CHOOSE i \in DOMAIN names : names[i] = source

\* process_question has returned for a question, or main has gone on from it
Returned == pc = "returned"
Recorded == pc \in {"next_question", "done", "crashed"} /\ q_done > 0
LastQuestion == IF Returned THEN questions[q_done + 1] ELSE questions[q_done]
RowsOf(q) == {k \in DOMAIN rows : rows[k].question = q}

\* C6: with at least one sample on each side, process_question selects from
\* the whole old x new cross product a pair whose total_diff_count no other
\* pair undercuts, and of the pairs with that count the first in enumeration
\* order (old sample major, new sample minor).
SelectsFirstMinimalPair ==
    /\ (Returned /\ old_results # <<>> /\ new_results # <<>>) => min_diff # <<>>
    /\ min_diff # <<>> =>
        LET md == min_diff[1]
            si == SourceIndex(OldSources, md.old_source)
            sj == SourceIndex(NewSources, md.new_source)
        IN  /\ si \in DOMAIN old_results
            /\ sj \in DOMAIN new_results
            /\ md.old_ids = old_results[si].ids
            /\ md.new_ids = new_results[sj].ids
            /\ md.old_traceid = old_results[si].traceid
            /\ md.new_traceid = new_results[sj].traceid
            /\ md.diff_analysis.total_diff_count = TotalOf(si, sj)
            /\ \A i \in DOMAIN old_results, j \in DOMAIN new_results :
                  /\ TotalOf(si, sj) <= TotalOf(i, j)
                  /\ TotalOf(i, j) = TotalOf(si, sj) =>
                        (si < i \/ (si = i /\ sj <= j))

\* C6 witness: the selected pair is not the first pair, an earlier pair has
\* a larger count and a later pair has the same count.
SelectsFirstMinimalPairWitness ==
    /\ min_diff # <<>>
    /\ Len(old_results) > Len(new_results)
    /\ LET si == SourceIndex(OldSources, min_diff[1].old_source)
           sj == SourceIndex(NewSources, min_diff[1].new_source)
       IN  /\ si > 1
           /\ TotalOf(1, 1) > TotalOf(si, sj)
           /\ \E i \in DOMAIN old_results, j \in DOMAIN new_results :
                 /\ i > si \/ (i = si /\ j > sj)
                 /\ TotalOf(i, j) = TotalOf(si, sj)

\* some sampled pair has no difference at all
SomePairHasNoDiff ==
    \E i \in DOMAIN old_results, j \in DOMAIN new_results : TotalOf(i, j) = 0

\* C7: when the least total_diff_count over the sampled pairs is zero,
\* process_question returns no diff records (None) and main writes no row
\* for the query.
ConsistentQueryWritesNothing ==
    ((Returned \/ Recorded) /\ SomePairHasNoDiff) =>
        /\ result = <<>>
        /\ RowsOf(LastQuestion) = {}

\* C7 witness: main has gone on from a query whose first pair differs and
\* one of whose later pairs does not.
ConsistentQueryWitness ==
    /\ Recorded
    /\ SomePairHasNoDiff
    /\ TotalOf(1, 1) > 0
    /\ total_processed = 1
    /\ rows = <<>>

\* what C8 says of the rows whatever their tag: they come from the handled
\* questions, carry the winning pair's total, and there is exactly one per
\* set-difference id and one per order-change entry
RowsMatchWinner(md, q) ==
    LET best == md.diff_analysis
        R == RowsOf(q)
        oc == best.order_changed
    IN  /\ \A k \in DOMAIN rows : \E n \in 1..q_done : rows[k].question = questions[n]
        /\ \A k \in R :
              /\ rows[k].total_diff_count = best.total_diff_count
              /\ rows[k].diff_type \in {"only_in_old", "only_in_new", "order_diff"}
              /\ rows[k].diff_type = "only_in_old" => rows[k].old_id \in best.only_in_old
              /\ rows[k].diff_type = "only_in_new" => rows[k].new_id \in best.only_in_new
        /\ \A id \in best.only_in_old :
              Cardinality({k \in R : /\ rows[k].diff_type = "only_in_old"
                                     /\ rows[k].old_id = id}) = 1
        /\ \A id \in best.only_in_new :
              Cardinality({k \in R : /\ rows[k].diff_type = "only_in_new"
                                     /\ rows[k].new_id = id}) = 1
        /\ \A e \in DOMAIN oc :
              Cardinality({k \in R : /\ rows[k].diff_type = "order_diff"
                                     /\ rows[k].position = oc[e].position
                                     /\ rows[k].old_id = oc[e].old_id
                                     /\ rows[k].new_id = oc[e].new_id}) = 1
        /\ Cardinality({k \in R : rows[k].diff_type = "order_diff"}) = Len(oc)

\* C8 as stated: every diff row, whatever its tag, carries the query text,
\* both correlation ids of the winning pair and the winning pair's total
\* diff count, and there is exactly one row per set-difference id and one per
\* order-change entry.
EveryRowCarriesBothTraceIds ==
    (Recorded /\ min_diff # <<>>) =>
        /\ RowsMatchWinner(min_diff[1], LastQuestion)
        /\ \A k \in RowsOf(LastQuestion) :
              /\ rows[k].old_traceid = min_diff[1].old_traceid
              /\ rows[k].new_traceid = min_diff[1].new_traceid

\* C8 amended: every diff row carries the query text and the winning pair's
\* total diff count; an order_diff row carries both correlation ids of the
\* winning pair, an only_in_old row carries the old correlation id and an
\* empty new one, an only_in_new row the new correlation id and an empty old
\* one; there is exactly one row per set-difference id and one per
\* order-change entry.
RowsCarryTheirSideTraceIds ==
    (Recorded /\ min_diff # <<>>) =>
        /\ RowsMatchWinner(min_diff[1], LastQuestion)
        /\ \A k \in RowsOf(LastQuestion) :
              /\ rows[k].diff_type = "order_diff" =>
                    /\ rows[k].old_traceid = min_diff[1].old_traceid
                    /\ rows[k].new_traceid = min_diff[1].new_traceid
              /\ rows[k].diff_type = "only_in_old" =>
                    /\ rows[k].old_traceid = min_diff[1].old_traceid
                    /\ rows[k].new_traceid = NoTraceId
              /\ rows[k].diff_type = "only_in_new" =>
                    /\ rows[k].old_traceid = NoTraceId
                    /\ rows[k].new_traceid = min_diff[1].new_traceid

\* C8 witness: the rows of a query whose winning pair differs in its id
\* sets, one row tagged only_in_old and one tagged only_in_new.
RowsCarryTheirSideTraceIdsWitness ==
    /\ Recorded
    /\ min_diff # <<>>
    /\ \E k \in DOMAIN rows : rows[k].diff_type = "only_in_old"
    /\ \E k \in DOMAIN rows : rows[k].diff_type = "only_in_new"
    /\ min_diff[1].old_traceid # min_diff[1].new_traceid

\* the order_diff rows of C8, reached as well: a query whose winning pair
\* differs in order only
OrderRowsReached ==
    /\ Recorded
    /\ min_diff # <<>>
    /\ Cardinality({k \in DOMAIN rows : rows[k].diff_type = "order_diff"}) = 2

----------------------------------------------------------------------------
(* Claims about the record validator, checked under SpecValidate *)

\* what the rules call empty: a missing key, null or the empty string
EmptyOrMissing(value) == value \in {Missing, None, Str("")}

\* the returned reason list has the entry
Reported(entry) == \E i \in DOMAIN val_save_reasons : val_save_reasons[i] = entry
EmptyFieldEntry(field) == field \o " is empty (null or '')"
SourceEntry == "source is empty (null or '') but informationType needs it"
JumpUrlEntry == "jumpUrl is empty (null or '') but informationType needs it"
IsWrongPrefixEntry(entry) == startswith(entry, "ID prefix should be ")
IsNoPrefixEntry(entry) == startswith(entry, "ID should have no prefix")
WrongPrefixReported == \E i \in DOMAIN val_save_reasons : IsWrongPrefixEntry(val_save_reasons[i])
NoPrefixReported == \E i \in DOMAIN val_save_reasons : IsNoPrefixEntry(val_save_reasons[i])

\* the tables as the specification states them
SourceRequiredTypes ==
    {"NEWS", "CFH", "LAW", "BOND", "WECHAT", "INTERACTION", "HOT_NEWS"}
JumpUrlRequiredTypes == {"WECHAT", "HOT_NEWS", "INV_NEWS"}
ExpectedPrefix ==
    [NEWS |-> "NW", REPORT |-> "AP", NOTICE |-> "AN", LAW |-> "LA",
     BOND |-> "BOND", INTERACTION |-> "PS"]
OtherCategoryPrefixes == {"NW", "AP", "AN", "LA", "BOND", "PS"}

TypeIs(item, types) ==
    item["informationType"].kind = "str" /\ item["informationType"].s \in types
HasId(item) == item["id"].kind = "str" /\ item["id"].s # ""

\* C12: for each of title, showTime and informationType the validator reports
\* the field's violation exactly when the field is a missing key, null or the
\* empty string (the same entry in the three cases), and never for a
\* non-empty value.
RequiredFieldsReportedIffEmpty ==
    ValDone =>
        \A field \in {"title", "showTime", "informationType"} :
            Reported(EmptyFieldEntry(field)) <=> EmptyOrMissing(val_item[field])

RequiredFieldsWitness ==
    /\ ValDone
    /\ val_item["title"] = Missing
    /\ val_item["showTime"] = Str("")
    /\ val_item["informationType"] = None
    /\ val_item["source"] = Str("v")
    /\ \A field \in {"title", "showTime", "informationType"} :
           Reported(EmptyFieldEntry(field))
    /\ Len(val_save_reasons) = 3

\* the rule (1 title, 2 showTime, 3 informationType, 4 source, 5 jumpUrl,
\* 6 id-prefix) an entry of the reason list belongs to
RuleOf(entry) ==
    CASE entry = EmptyFieldEntry("title") -> 1
      [] entry = EmptyFieldEntry("showTime") -> 2
      [] entry = EmptyFieldEntry("informationType") -> 3
      [] entry = SourceEntry -> 4
      [] entry = JumpUrlEntry -> 5
      [] IsWrongPrefixEntry(entry) \/ IsNoPrefixEntry(entry) -> 6
      [] OTHER -> 0

\* the rule is violated by the record, stated from the rules and not from
\* the validator
Violated(rule, item) ==
    CASE rule = 1 -> EmptyOrMissing(item["title"])
      [] rule = 2 -> EmptyOrMissing(item["showTime"])
      [] rule = 3 -> EmptyOrMissing(item["informationType"])
      [] rule = 4 -> TypeIs(item, SourceRequiredTypes)
                        /\ EmptyOrMissing(item["source"])
      [] rule = 5 -> TypeIs(item, JumpUrlRequiredTypes)
                        /\ EmptyOrMissing(item["jumpUrl"])
      [] OTHER ->
            /\ HasId(item)
            /\ \/ /\ TypeIs(item, {"CFH"})
                  /\ \E p \in OtherCategoryPrefixes : startswith(item["id"].s, p)
               \/ /\ TypeIs(item, DOMAIN ExpectedPrefix)
                  /\ ~startswith(item["id"].s,
                                 ExpectedPrefix[item["informationType"].s])

\* C13: the rules are evaluated independently: the reason list has exactly
\* one entry for every violated rule, in the fixed order title, showTime,
\* informationType, source, jumpUrl, id-prefix, and the returned string is
\* these entries joined (None when there is none).
ReasonsAreAllViolationsInRuleOrder ==
    ValDone =>
        /\ \A rule \in 1..6 :
               Violated(rule, val_item)
                   <=> \E i \in DOMAIN val_save_reasons :
                           RuleOf(val_save_reasons[i]) = rule
        /\ \A i, j \in DOMAIN val_save_reasons :
               i < j => RuleOf(val_save_reasons[i]) < RuleOf(val_save_reasons[j])
        /\ \A i \in DOMAIN val_save_reasons : RuleOf(val_save_reasons[i]) # 0
        /\ ValOut = IF val_save_reasons = <<>> THEN None
                    ELSE Str(join("; ", val_save_reasons))

\* a record that violates four rules at once
ReasonsWitness ==
    /\ ValDone
    /\ val_item["title"] = None
    /\ val_item["showTime"] = Missing
    /\ val_item["informationType"] = Str("NEWS")
    /\ val_item["source"] = Str("")
    /\ val_item["id"] = Str("AP123")
    /\ ValOut = Str("title is empty (null or ''); showTime is empty (null or ''); "
                    \o "source is empty (null or '') but informationType needs it; "
                    \o "ID prefix should be NW but is: AP")

\* C14: an empty or missing source is reported exactly when informationType
\* is one of NEWS, CFH, LAW, BOND, WECHAT, INTERACTION, HOT_NEWS, and an
\* empty or missing jumpUrl exactly when it is one of WECHAT, HOT_NEWS,
\* INV_NEWS; for every other informationType neither field is checked.
ConditionalFieldsReportedIffRequired ==
    ValDone =>
        /\ Reported(SourceEntry)
               <=> (TypeIs(val_item, SourceRequiredTypes)
                       /\ EmptyOrMissing(val_item["source"]))
        /\ Reported(JumpUrlEntry)
               <=> (TypeIs(val_item, JumpUrlRequiredTypes)
                       /\ EmptyOrMissing(val_item["jumpUrl"]))

\* a HOT_NEWS record without source and with a null jumpUrl gets both entries
ConditionalFieldsWitness ==
    /\ ValDone
    /\ val_item["informationType"] = Str("HOT_NEWS")
    /\ val_item["source"] = Missing
    /\ val_item["jumpUrl"] = None
    /\ Reported(SourceEntry)
    /\ Reported(JumpUrlEntry)

\* C15: for a record whose informationType has a non-empty expected prefix
\* (NEWS NW, REPORT AP, NOTICE AN, LAW LA, BOND BOND, INTERACTION PS) and
\* whose id is non-empty, a wrong-prefix violation naming the expected prefix
\* is reported exactly when the id does not start with that prefix.
WrongPrefixReportedIffIdLacksPrefix ==
    (ValDone /\ TypeIs(val_item, DOMAIN ExpectedPrefix) /\ HasId(val_item)) =>
        LET expected == ExpectedPrefix[val_item["informationType"].s]
            found == \E i \in DOMAIN val_save_reasons :
                         startswith(val_save_reasons[i],
                                    "ID prefix should be " \o expected \o " but is: ")
        IN  /\ found <=> ~startswith(val_item["id"].s, expected)
            /\ WrongPrefixReported => found
            /\ ~NoPrefixReported

\* NEWS with id AP123 is flagged, the expected prefix being NW
WrongPrefixWitness ==
    /\ ValDone
    /\ val_item["informationType"] = Str("NEWS")
    /\ val_item["id"] = Str("AP123")
    /\ Reported("ID prefix should be NW but is: AP")

\* C16: for a CFH record with a non-empty id, a "should have no prefix"
\* violation is reported exactly when the id starts with one of NW, AP, AN,
\* LA, BOND, PS.
NoPrefixReportedIffCfhIdHasPrefix ==
    (ValDone /\ TypeIs(val_item, {"CFH"}) /\ HasId(val_item)) =>
        /\ NoPrefixReported
               <=> \E p \in OtherCategoryPrefixes : startswith(val_item["id"].s, p)
        /\ ~WrongPrefixReported

\* CFH with id NW123 is flagged
NoPrefixWitness ==
    /\ ValDone
    /\ val_item["informationType"] = Str("CFH")
    /\ val_item["id"] = Str("NW123")
    /\ Reported("ID should have no prefix but is: NW")

\* C17: for a record whose informationType is not in the prefix table (WECHAT,
\* INV_NEWS, HOT_NEWS, an unknown category, or none at all) no id-prefix
\* violation of either kind is reported, whatever the id.
NoPrefixCheckOutsideTable ==
    (ValDone /\ ~TypeIs(val_item, DOMAIN ExpectedPrefix \cup {"CFH"})) =>
        /\ ~WrongPrefixReported
        /\ ~NoPrefixReported

\* a WECHAT record whose id carries another category's prefix passes
NoPrefixCheckWitness ==
    /\ ValDone
    /\ val_item["informationType"] = Str("WECHAT")
    /\ val_item["id"] = Str("NW123")
    /\ val_item["title"] = Str("v")
    /\ val_item["showTime"] = Str("v")
    /\ val_item["source"] = Str("v")
    /\ val_item["jumpUrl"] = Str("v")
    /\ ValOut = None

----------------------------------------------------------------------------
(* Claims about the reporting drivers, checked under SpecReport *)

\* the requests whose rows the validation file holds: none before the first
\* start, those of the whole first run before the second start, and those
\* the loop has been through otherwise
CallsDone ==
    IF rp_pc \in {"start", "crashed_open"}
        THEN IF rp_run = 1 THEN 0
             ELSE Len(rp_queries) * calls_per_query(rp_kind)
        ELSE rp_q * calls_per_query(rp_kind) + rp_e
CallQuery(k) == ((k - 1) \div calls_per_query(rp_kind)) + 1
CallEndpoint(k) == ((k - 1) % calls_per_query(rp_kind)) + 1
CallAnswer(k) == Answers[rp_answers[CallQuery(k)][CallEndpoint(k)]]

\* the rows that report a failed request attempt
IsRequestFailedRow(row) ==
    \E error \in Errors : row.invalid_reasons = "request failed: " \o error

\* C11: a transport error (timeout, connection failure, non-2xx status,
\* malformed body) on a search request is retried and never surfaced: no
\* output row is ever produced because a request attempt failed.
TransportErrorsNeverSurface ==
    \A k \in DOMAIN rp_rows : ~IsRequestFailedRow(rp_rows[k])

\* the rows written for records, as opposed to the rows written for a
\* response as a whole
IsRecordRow(row) ==
    /\ ~startswith(row.invalid_reasons, "request failed: ")
    /\ row.invalid_reasons # "the 'data' field of the response is not a list"

\* what the validator of the running driver returns for a record
ValidatorReturn(item) ==
    IF rp_kind = "hascache" THEN process_item_for_validation(item)
    ELSE process_chunk(item)

\* a row, or a record with its query and the validator's reasons, reduced to
\* the columns that tell which record it is
RowKey(row) ==
    <<row.inputQuery, row.id, row.title, row.showTime, row.source,
      row.informationType, row.jumpUrl, row.invalid_reasons>>
RecordKey(query, item, reasons) ==
    <<query, get_or_empty(item, "id"), get_or_empty(item, "title"),
      get_or_empty(item, "showTime"), get_or_empty(item, "source"),
      get_or_empty(item, "informationType"), get_or_empty(item, "jumpUrl"),
      reasons>>

\* the records of the calls k..n for which the validator returned reasons,
\* in the order the driver meets them
RECURSIVE ViolatingRecords(_, _)
ViolatingRecords(k, n) ==
    IF k > n THEN <<>>
    ELSE LET data == IF CallAnswer(k).error = "" /\ CallAnswer(k).data_kind = "list"
                         THEN CallAnswer(k).data ELSE <<>>
             flagged == SelectSeq(data, LAMBDA item : ValidatorReturn(item) # None)
         IN  [i \in 1..Len(flagged) |->
                 RecordKey(rp_queries[CallQuery(k)], flagged[i],
                           ValidatorReturn(flagged[i]).s)]
             \o ViolatingRecords(k + 1, n)

RecordRowKeys ==
    LET record_rows == SelectSeq(rp_rows, IsRecordRow)
    IN  [i \in 1..Len(record_rows) |-> RowKey(record_rows[i])]

\* C18: a record with zero violations is never emitted: the rows written for
\* records are, in order, exactly the records for which the validator
\* returned at least one violation reason.
RowsAreExactlyTheViolatingRecords ==
    rp_kind \in {"hascache", "ans_B"} =>
        RecordRowKeys = ViolatingRecords(1, CallsDone)

\* hascache.py got a compliant and a non-compliant NEWS record from the one
\* endpoint and a compliant CFH record from the other: one row
RowsWitness ==
    /\ rp_kind = "hascache"
    /\ rp_pc = "done"
    /\ rp_run = 1
    /\ rp_queries = <<"q1">>
    /\ rp_answers[1] = <<2, 3>>
    /\ Len(rp_rows) = 1
    /\ rp_rows[1].id = Str("AP123")
    /\ rp_rows[1].invalid_reasons = "ID prefix should be NW but is: AP"

\* The counters as one function of (endpoint, status, type): B_cover keeps
\* a single Counter, read here as the counter of endpoint B under "total"
CounterKeys ==
    {<<endpoint_key, status_key, info_type>> :
        endpoint_key \in Range(CONFIG_KEYS),
        status_key \in Range(STATUS_KEYS) \cup {"total"},
        info_type \in Range(SORTED_NAMES)}
CountIn(counters, key) ==
    IF rp_kind = "hascache"
        THEN IF key[2] = "total" THEN 0
             ELSE count_of(counters[key[1]][key[2]], key[3])
        ELSE IF key[1] = "B" /\ key[2] = "total" THEN count_of(counters, key[3])
             ELSE 0

\* the counters the running driver would load from the coverage file now
Persisted ==
    IF rp_kind = "hascache" THEN read_existing_coverage_data(rp_file)
    ELSE read_existing_results(rp_file)

\* the updates that the requests of query q add to the counters
RECURSIVE QueryUpdates(_, _)
QueryUpdates(q, e) ==
    IF e = 0 THEN IF rp_kind = "hascache" THEN ZeroCounters ELSE EmptyCounter
    ELSE LET answer == Answers[rp_answers[q][e]]
             counter == IF answer.error = "" /\ answer.data_kind = "list"
                            THEN counter_of(current_call_info_types(answer.data))
                            ELSE EmptyCounter
         IN  IF rp_kind = "hascache"
                 THEN table_update(QueryUpdates(q, e - 1), CONFIG_KEYS[e],
                                   status_key_of(answer), counter)
                 ELSE counter_update(QueryUpdates(q, e - 1), counter)

\* the driver holds counters: it is an aggregator that has loaded them
HoldsCounters ==
    /\ rp_kind \in {"hascache", "B_cover"}
    /\ rp_pc # "start"
    /\ rp_kind = "hascache" => rp_queries # <<>>

\* C19: the counter table is rewritten after every processed query: at every
\* point of a run the persisted snapshot differs from the in-memory counters
\* by at most one query's worth of updates (what a crash there would lose).
SnapshotLagsAtMostOneQuery ==
    HoldsCounters =>
        LET persisted == Persisted
        IN  \/ \A key \in CounterKeys :
                   CountIn(persisted, key) = CountIn(rp_counters, key)
            \/ \E q \in DOMAIN rp_queries :
                   LET updates == QueryUpdates(q, calls_per_query(rp_kind))
                   IN  \A key \in CounterKeys :
                           CountIn(rp_counters, key)
                               = CountIn(persisted, key) + CountIn(updates, key)

\* B_informationtype_cover.py does keep the discipline: while the file can
\* be written it always holds the in-memory totals
CoverSnapshotIsCurrent ==
    (HoldsCounters /\ rp_kind = "B_cover" /\ rp_writable) =>
        LET persisted == Persisted
        IN  \A key \in CounterKeys :
                CountIn(persisted, key) = CountIn(rp_counters, key)

\* C20: resuming accumulates on the persisted totals: after a run from an
\* empty snapshot and a second run over the same input with the same answers
\* from the snapshot the first run left, no write having failed, every
\* counter, in memory and in the file, is exactly twice what it was after
\* the first run.
SecondRunDoublesCounters ==
    (HoldsCounters /\ rp_run = 2 /\ rp_pc = "done" /\ rp_writable) =>
        LET persisted == Persisted
        IN  \A key \in CounterKeys :
                /\ CountIn(rp_counters, key) = 2 * CountIn(rp_first[1], key)
                /\ CountIn(persisted, key) = 2 * CountIn(rp_first[1], key)

\* hascache.py counted two NEWS records as cache hits of endpoint B in the
\* first run and has four of them after the second
SecondRunWitness ==
    /\ rp_kind = "hascache"
    /\ rp_run = 2
    /\ rp_pc = "done"
    /\ rp_queries = <<"q1">>
    /\ rp_answers[1] = <<2, 3>>
    /\ rp_first[1]["B"]["cache_hit"]["NEWS"] = 2
    /\ rp_counters["B"]["cache_hit"]["NEWS"] = 4
    /\ rp_counters["C"]["cache_miss"]["CFH"] = 2
    /\ rp_file.rows[3] = <<"NEWS", "4", "0", "0", "0", "0", "0">>

\* what the running driver loads from the file it would write for counters
LoadOfWritten(counters) ==
    IF rp_kind = "hascache"
        THEN read_existing_coverage_data(write_final_coverage_report(counters))
        ELSE read_existing_results(write_totals_to_csv(counters))

\* the driver is at a point where it writes its counters to the file:
\* hascache.py at the end of its run, B_informationtype_cover.py after any
\* query
WritesCountersNow ==
    /\ HoldsCounters
    /\ rp_kind = "hascache" => rp_pc = "report"

\* C21: loading a report that was written from a counter table reconstructs
\* that table: every column header is parsed back to its own (revision,
\* bucket) key, and for every (revision, bucket, information type) the loaded
\* count equals the written count, absent entries counting as zero.
LoadReconstructsWrittenTable ==
    /\ (WritesCountersNow /\ rp_kind = "hascache" /\ rp_run = 1) =>
           \A endpoint_key \in Range(CONFIG_KEYS), status_key \in Range(STATUS_KEYS) :
               col_map_entry(column_name(endpoint_key, status_key))
                   = <<endpoint_key, status_key>>
    /\ WritesCountersNow =>
           LET loaded == LoadOfWritten(rp_counters)
           IN  \A key \in CounterKeys :
                   CountIn(loaded, key) = CountIn(rp_counters, key)

\* hascache.py wrote a table with two cache hits of NEWS at endpoint B and
\* one cache miss of CFH at endpoint C, and loading its file gives them back
LoadReconstructsWitness ==
    /\ rp_kind = "hascache"
    /\ rp_pc = "done"
    /\ rp_run = 1
    /\ rp_queries = <<"q1">>
    /\ rp_answers[1] = <<2, 3>>
    /\ rp_counters["B"]["cache_hit"]["NEWS"] = 2
    /\ rp_file = write_final_coverage_report(rp_counters)
    /\ read_existing_coverage_data(rp_file)["B"]["cache_hit"]["NEWS"] = 2
    /\ read_existing_coverage_data(rp_file)["C"]["cache_miss"]["CFH"] = 1

----------------------------------------------------------------------------
(* Claims about the worker pool of cachecheck.py, checked under SpecPool *)

\* every thread of the pool has ended
PoolStopped == \A w \in Workers : wk_pc[w] \in {"finished", "died"}

\* C22: under every interleaving of the three pool workers, each query of
\* the shared work queue is taken by exactly one worker: none is handed out
\* twice and, when the pool has stopped, none was skipped.
EachEntryTakenExactlyOnce ==
    /\ \A i \in DOMAIN wk_taken : wk_taken[i] <= 1
    /\ PoolStopped => \A i \in DOMAIN wk_taken : wk_taken[i] = 1

\* With the global interpreter lock no entry is handed out twice, and none
\* is skipped once a worker has seen the end of the queue
GilHandsEachEntryOutOnce ==
    wk_build = "gil" =>
        /\ \A i \in DOMAIN wk_taken : wk_taken[i] <= 1
        /\ (\E w \in Workers : wk_pc[w] = "finished")
               => \A i \in DOMAIN wk_taken : wk_taken[i] = 1

\* the workers inside the append section
Appending == {w \in Workers : wk_pc[w] = "write"}

\* C23: writes to the shared output file are mutually exclusive at query
\* granularity: at most one worker is inside the append section at any
\* time, it is the one holding file_lock, and every row of the file after
\* the header is the whole row of one query.
AppendsAreMutuallyExclusive ==
    /\ Cardinality(Appending) <= 1
    /\ wk_lock = Appending
    /\ wk_file[1] = column_names
    /\ \A k \in 2..Len(wk_file) :
           \E i \in DOMAIN wk_queries_data :
               /\ truthy(wk_queries_data[i])
               /\ wk_file[k] = row_data(wk_queries_data[i].s)

\* worker 1 is inside the append section while worker 2, its response in
\* hand, waits for file_lock
AppendsWitness ==
    /\ wk_pc[1] = "write"
    /\ wk_lock = {1}
    /\ wk_pc[2] = "lock"
    /\ wk_item[1] # wk_item[2]

\* C24: file_lock is never held while a worker is probing or sleeping
\* between retries: whoever holds it is at the append itself, so a worker
\* that retries forever keeps no other worker from taking queries and
\* writing rows.
LockNeverHeldWhileProbing ==
    \A w \in Workers :
        wk_pc[w] \in {"take", "advance", "probe", "sleep", "lock", "finished", "died"}
            => w \notin wk_lock

\* worker 1 sleeps between two attempts while worker 2 appends its row, a
\* row being in the file already
LockWitness ==
    /\ wk_pc[1] = "sleep"
    /\ wk_pc[2] = "write"
    /\ wk_lock = {2}
    /\ Len(wk_file) = 2

----------------------------------------------------------------------------
(* Further claims about process_question and main, checked under SpecDiff *)

\* fewer than three samples were collected for a side
FewerSamples == Len(old_results) < NumSamples \/ Len(new_results) < NumSamples

\* C25: when fewer than three samples are collected for a side, the query is
\* still compared whenever each side has at least one sample, over the full
\* |old| x |new| cross product (every pair is compared and none undercuts
\* the selected one); when a side has no sample the query is skipped: no
\* pair is selected, nothing is returned and no row is written for it.
FewerSamplesStillCompared ==
    ((Returned \/ Recorded) /\ FewerSamples) =>
        IF old_results # <<>> /\ new_results # <<>>
        THEN LET compared == compared_results(old_results, new_results)
             IN  /\ Len(compared) = Len(old_results) * Len(new_results)
                 /\ \A i \in DOMAIN old_results, j \in DOMAIN new_results :
                       \E k \in DOMAIN compared :
                           /\ compared[k].old_source = old_results[i].source
                           /\ compared[k].new_source = new_results[j].source
                           /\ compared[k].diff_analysis.total_diff_count = TotalOf(i, j)
                 /\ min_diff # <<>>
                 /\ \E k \in DOMAIN compared : min_diff[1] = compared[k]
                 /\ \A i \in DOMAIN old_results, j \in DOMAIN new_results :
                       min_diff[1].diff_analysis.total_diff_count <= TotalOf(i, j)
                 /\ result = <<>> <=> min_diff[1].diff_analysis.total_diff_count = 0
        ELSE /\ min_diff = <<>>
             /\ result = <<>>
             /\ RowsOf(LastQuestion) = {}

\* C25 witness: three old samples and one new sample, the new endpoint
\* having given no list twice; the pair of the third old sample with the
\* new sample is the one selected, the two pairs before it differing
FewerSamplesWitness ==
    /\ Recorded
    /\ Len(old_results) = 3
    /\ Len(new_results) = 1
    /\ min_diff # <<>>
    /\ min_diff[1].old_source = OldSources[3]
    /\ TotalOf(1, 1) > TotalOf(3, 1)
    /\ TotalOf(2, 1) > TotalOf(3, 1)
    /\ total_processed = 1

----------------------------------------------------------------------------
(* Further claims about the reporting drivers, checked under SpecReport *)

\* a response that came back but has no data list: data is absent or is not
\* a list
LacksDataList(answer) == answer.error = "" /\ answer.data_kind # "list"

\* the rows that report, for the query and endpoint of call k, that the
\* response has no data list
DedicatedRows(k) ==
    {i \in DOMAIN rp_rows :
        /\ rp_rows[i].inputQuery = rp_queries[CallQuery(k)]
        /\ rp_rows[i].endpoint = CONFIG_NAME[CONFIG_KEYS[CallEndpoint(k)]]
        /\ rp_rows[i].invalid_reasons
               = "the 'data' field of the response is not a list"}

\* C26: a response that lacks the expected data list (data absent or not a
\* list) is reported as one dedicated error row for that query, and
\* processing goes on with the next call.
MissingDataListGetsOneErrorRow ==
    rp_kind \in {"hascache", "B_cover"} =>
        \A k \in 1..CallsDone :
            LacksDataList(CallAnswer(k)) => Cardinality(DedicatedRows(k)) = 1

\* What hascache.py does: the dedicated row is written exactly for a data
\* value that is present and not a list; a response without the data key is
\* taken as an empty list and leaves no row
HasCachePresentNonListGetsOneErrorRow ==
    rp_kind = "hascache" =>
        \A k \in 1..CallsDone :
            Cardinality(DedicatedRows(k)) =
                IF CallAnswer(k).error = ""
                      /\ CallAnswer(k).data_kind \notin {"list", "absent"}
                THEN 1 ELSE 0

\* the run was ended by the exception of a row that could not be written
RowWriteWasFatal == rp_pc = "crashed_row"

\* C27: a failure to write an output row or a counter snapshot is never
\* fatal: it is logged, the in-memory state is kept and the run goes on.
WriteFailureIsNeverFatal == ~RowWriteWasFatal

\* What does hold: a counter snapshot that cannot be written ends no run
\* and loses no count in memory (B_informationtype_cover.py:59-60,
\* hascache.py:195-196)
SnapshotFailureIsNotFatal ==
    /\ rp_kind = "B_cover" => rp_pc \notin {"crashed_open", "crashed_row"}
    /\ (rp_kind = "B_cover" /\ rp_run = 1 /\ rp_pc = "done"
            /\ rp_file \in InitialFiles) =>
           \A key \in CounterKeys :
               CountIn(rp_counters, key) =
                   CountIn(QueryUpdates(1, IF rp_queries = <<>> THEN 0 ELSE 1), key)
                     + (IF Len(rp_queries) < 2 THEN 0
                        ELSE CountIn(QueryUpdates(2, 1), key))

\* how many records of a response carry the information type
RecordsOfType(answer, info_type) ==
    IF answer.error = "" /\ answer.data_kind = "list"
    THEN Cardinality({i \in DOMAIN answer.data :
                         answer.data[i]["informationType"] = Str(info_type)})
    ELSE 0

\* C28: recording a successful response from revision R classified in cache
\* bucket K increments, for each record with a non-empty information type T,
\* exactly the counter (R, K, T) by one, and leaves the counters of the other
\* revision and of the other two buckets unchanged.
RecordingIncrementsOnlyItsCounters ==
    [][(rp_kind = "hascache" /\ rp_pc = "loop" /\ <<rp_q, rp_e>>' # <<rp_q, rp_e>>) =>
          LET answer == Answers[rp_answers[rp_q + 1][rp_e + 1]]
          IN  \A key \in CounterKeys :
                  CountIn(rp_counters', key) =
                      CountIn(rp_counters, key)
                        + (IF key[1] = CONFIG_KEYS[rp_e + 1]
                                /\ key[2] = status_key_of(answer)
                           THEN RecordsOfType(answer, key[3]) ELSE 0)]_vars

\* hascache.py has recorded the first response of endpoint B, a cache hit
\* with two NEWS records: that counter is 2 and every other counter is 0
RecordingWitness ==
    /\ rp_kind = "hascache"
    /\ rp_pc = "loop"
    /\ rp_run = 1
    /\ rp_q = 0
    /\ rp_e = 1
    /\ rp_answers[1][1] = 2
    /\ \A key \in CounterKeys :
           CountIn(rp_counters, key) =
               IF key = <<"B", "cache_hit", "NEWS">> THEN 2 ELSE 0

\* the bucket a response belongs in by the value of its isCache field alone
BucketByValue(answer) ==
    IF answer.is_cache = "true" THEN "cache_hit"
    ELSE IF answer.is_cache = "false" THEN "cache_miss"
    ELSE "no_cache_info"

\* the count of a key after the first n calls of a run that started from
\* zero, every response being counted in the bucket that bucket(_) names
RECURSIVE CountAfter(_, _, _)
CountAfter(bucket(_), key, n) ==
    IF n = 0 THEN 0
    ELSE CountAfter(bucket, key, n - 1)
           + (IF key[1] = CONFIG_KEYS[CallEndpoint(n)]
                   /\ key[2] = bucket(CallAnswer(n))
              THEN RecordsOfType(CallAnswer(n), key[3]) ELSE 0)

\* hascache.py in its first run, started without counts on file
FirstRunFromZero ==
    /\ rp_kind = "hascache"
    /\ rp_run = 1
    /\ rp_pc \in {"loop", "report", "done", "crashed_row"}
    /\ rp_queries # <<>>

\* C29: a response is counted in cache_miss only if its isCache field is
\* exactly false, in cache_hit only if it is exactly true, and in
\* no_cache_info otherwise (isCache absent or not a boolean); every
\* successful response is counted in exactly one of the three buckets.
CountedByIsCacheValue ==
    FirstRunFromZero =>
        \A key \in CounterKeys :
            CountIn(rp_counters, key) = CountAfter(BucketByValue, key, CallsDone)

\* What hascache.py does: a response that has the isCache key is a hit when
\* the value is true and a miss for every other value, null included; only
\* a response without the key goes to no_cache_info
CountedByPresenceThenTruth ==
    FirstRunFromZero =>
        \A key \in CounterKeys :
            CountIn(rp_counters, key) = CountAfter(status_key_of, key, CallsDone)

----------------------------------------------------------------------------
(* Claims about what a query without rows means, checked under SpecCompare *)
(* and SpecDiff                                                            *)

\* compare_results gives total_diff_count = 0 exactly for identical
\* sequences, over all bounded id sequences
ZeroTotalIffIdentical ==
    CmpDone => (CmpOut.total_diff_count = 0 <=> cmp_old_ids = cmp_new_ids)

\* total_diff_count is 0 for exactly the sampled pairs that are identical
SampledZeroIffIdentical ==
    \A i \in DOMAIN old_results, j \in DOMAIN new_results :
        TotalOf(i, j) = 0 <=> old_results[i].ids = new_results[j].ids

\* some sampled old sequence is identical to some sampled new sequence
SomePairIsIdentical ==
    \E i \in DOMAIN old_results, j \in DOMAIN new_results :
        old_results[i].ids = new_results[j].ids

----------------------------------------------------------------------------
(* Claims about main of search_C.py as a whole, checked under SpecDiff *)

\* over all bounded id sequences, those with repeated ids and different
\* lengths included: the records process_question builds from a report (one
\* per only_in_old id, one per only_in_new id, and one per order_changed
\* entry when order_diff is set) are as many as its total_diff_count
RecordsMatchTotalDiffCount ==
    CmpDone =>
        Cardinality(CmpOut.only_in_old) + Cardinality(CmpOut.only_in_new)
            + (IF CmpOut.order_diff THEN Len(CmpOut.order_changed) ELSE 0)
          = CmpOut.total_diff_count

\* C31: a query that has rows in the output has as many rows as the
\* total_diff_count written in each of them; the same holds of what
\* process_question returns before main writes it.
RowCountIsTotalDiffCount ==
    /\ \A k \in DOMAIN rows :
           Cardinality(RowsOf(rows[k].question)) = rows[k].total_diff_count
    /\ result # <<>> => Len(result[1].diff_records) = result[1].total_diff

\* C31 witness: the best pair is an order change of two positions, and the
\* query has the two order_diff rows, each carrying the count 2
RowCountWitness ==
    /\ Recorded
    /\ Len(rows) = 2
    /\ \A k \in DOMAIN rows :
           rows[k].diff_type = "order_diff" /\ rows[k].total_diff_count = 2

----------------------------------------------------------------------------
(* Claims about the termination of the worker pool, checked under          *)
(* SpecPoolFair                                                            *)

\* the entries of the input that have a non-empty query
WithQuery == {i \in DOMAIN wk_queries_data : truthy(wk_queries_data[i])}

\* the output file is one header row followed by exactly one row for each
\* entry that has a query, and by nothing else
OneRowPerQuery ==
    /\ Len(wk_file) = 1 + Cardinality(WithQuery)
    /\ wk_file[1] = column_names
    /\ \A i \in WithQuery :
           Cardinality({k \in 2..Len(wk_file) :
                           wk_file[k] = row_data(wk_queries_data[i].s)})
             = Cardinality({j \in WithQuery :
                               wk_queries_data[j] = wk_queries_data[i]})

\* no probe is answered with JSON that is not an object, which would end
\* the worker's thread
NoWorkerDies == \A w \in Workers : wk_pc[w] # "died"

\* C32: if every probe eventually succeeds and the file writes succeed,
\* then under fair scheduling all three workers terminate and the output
\* file then holds the header row and exactly one row for each entry with a
\* non-empty query, none for the entries without one.
PoolTerminatesWithOneRowPerQuery ==
    (wk_writable /\ []NoWorkerDies) => <>[](PoolStopped /\ OneRowPerQuery)

\* the same on an interpreter with the global interpreter lock
GilPoolTerminatesWithOneRowPerQuery ==
    (wk_build = "gil" /\ wk_writable /\ []NoWorkerDies)
        => <>[](PoolStopped /\ OneRowPerQuery)

\* on any interpreter the workers all terminate
PoolTerminates ==
    []NoWorkerDies => <>[]PoolStopped

----------------------------------------------------------------------------
(* Claims about how main of search_C.py ends, checked under SpecDiff *)

\* C33: the diff driver completes normally, printing its final summary
\* without an uncaught exception, for every query corpus, the empty corpus
\* included.
DriverCompletesNormally == pc # "crashed"

\* the summary raises only when one of its two divisors, len(questions) and
\* total_processed, is zero; with every question counted as processed that
\* is the empty corpus
SummaryRaisesOnlyOnZeroDivisor ==
    pc = "crashed" => (questions = <<>> /\ total_processed = 0 /\ rows = <<>>)

----------------------------------------------------------------------------
(* Claims about loading a coverage file, checked under SpecLoad *)

\* the aggregator has loaded the coverage file and has not yet counted
\* anything of this run; the file is still the one it found
JustLoaded == rp_pc = "loop" /\ rp_q = 0 /\ rp_e = 0

\* the file exists and is not what the writer writes: its header is not the
\* writer's, or a data row is shorter than the header, or a count is no
\* number
Malformed(file) ==
    LET expected == IF rp_kind = "hascache" THEN report_header
                    ELSE <<"InformationType", "Count">>
    IN  /\ file.exists
        /\ file.rows # <<>>
        /\ \/ file.rows[1] # expected
           \/ \E k \in 2..Len(file.rows) :
                  \/ Len(file.rows[k]) < Len(expected)
                  \/ \E i \in 2..Len(file.rows[k]) : int_raises(file.rows[k][i])

\* every count of the counters is zero
AllZero(counters) == \A key \in CounterKeys : CountIn(counters, key) = 0

\* C34: when the persisted snapshot file exists but is malformed (a count
\* that is no number, a short row, a bad header), load returns counters
\* that are all zero, never a partially loaded table, and the run proceeds
\* from zero.
MalformedSnapshotLoadsAllZero ==
    (JustLoaded /\ Malformed(rp_file)) => AllZero(rp_counters)

\* a short row under the writer's header does make the load return zero in
\* both aggregators, whatever the other rows hold
ShortRowLoadsAllZero ==
    LET expected == IF rp_kind = "hascache" THEN report_header
                    ELSE <<"InformationType", "Count">>
    IN  (/\ JustLoaded
         /\ rp_file.rows[1] = expected
         /\ \E k \in 2..Len(rp_file.rows) : Len(rp_file.rows[k]) < Len(expected))
            => AllZero(rp_counters)

\* a count that is no number makes B_informationtype_cover.py load zero
CoverUnparsableCountLoadsAllZero ==
    (/\ JustLoaded
     /\ rp_kind = "B_cover"
     /\ \E k \in 2..Len(rp_file.rows) :
            Len(rp_file.rows[k]) >= 2 /\ int_raises(rp_file.rows[k][2]))
        => AllZero(rp_counters)

====
